---------------------------- MODULE MCFetchBuffer ---------------------------
EXTENDS FetchBuffer
=============================================================================
