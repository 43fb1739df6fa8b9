---------------------------- MODULE MCFetchBatch ----------------------------
EXTENDS FetchBatch
=============================================================================
