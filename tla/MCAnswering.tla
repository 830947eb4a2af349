---------------------------- MODULE MCAnswering ----------------------------
EXTENDS Answering
CONSTANTS q1, s1, s2, corpus, configured, fallback
=============================================================================
