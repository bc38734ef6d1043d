-------------------------------- MODULE Null --------------------------------
(***************************************************************************
 The NULL of the C code: a pointer, an index or an answer that is not there.
 The modules of control share it, so that a theorem about two of them speaks of
 one NULL.
 ***************************************************************************)
CONSTANT NULL
=============================================================================
