------------------------------- MODULE MCSdk -------------------------------
EXTENDS SdkThreads

MCCalls == 1..2
MCRetryAfters == {None, 9}
=============================================================================
