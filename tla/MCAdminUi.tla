------------------------------ MODULE MCAdminUi ------------------------------
(* Two of everything, one page turn, two reads at once. *)
EXTENDS AdminUi, TLC

MCPage == 0..1
FirstProject == CHOOSE p \in Project : TRUE
OneSlug == CHOOSE s \in Slug : TRUE
MCFirstSlugs == [p \in Project |-> IF p = FirstProject THEN {OneSlug} ELSE Slug]
Symmetric == Permutations(Write) \cup Permutations(Query)
=============================================================================
