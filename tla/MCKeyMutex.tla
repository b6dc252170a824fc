---------------------------- MODULE MCKeyMutex ----------------------------
(* Four acquisitions over two keys: a chain of up to four on one key, or   *)
(* chains on both keys at once.                                            *)
EXTENDS KeyMutex
===========================================================================
