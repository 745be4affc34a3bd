----------------------------- MODULE MCKeyAuth -----------------------------
EXTENDS KeyAuth

\* Which requests meet: those that share a table or a setting.
MCMixes == {{"createEnv", "deleteEnv", "deleteProject"},
            {"createField", "deleteField", "import", "deleteProject"},
            {"patch", "deleteProject"},
            {"createKey", "revokeKey", "deleteEnv", "deleteProject"}}
MCLifetime == {None, 1}
=============================================================================
