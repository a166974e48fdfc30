--------------------------- MODULE MCCacheTable ---------------------------
(* One daemon that stores a fragment of two of the files and has room for  *)
(* two fragments more.                                                     *)
EXTENDS CacheTable

MCStored == <<<<1, 1>>, <<2, 1>>>>
=============================================================================
