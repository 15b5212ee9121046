---------------------------- MODULE MCGlobMatch ----------------------------
(***************************************************************************)
(* All keys and patterns up to a length.  A key may contain any byte, the  *)
(* character '*' too; a '?' in a key is to the matcher a letter.           *)
(***************************************************************************)
EXTENDS GlobMatch

KeyBytes  == {"a", "b", "*"}
GlobChars == {"a", "b", "*", "?"}
=============================================================================
