------------------------ MODULE MCTranslationUnits ------------------------
(***************************************************************************)
(* TranslationUnits for every file of a few tokens.                        *)
(***************************************************************************)
EXTENDS TranslationUnits
=============================================================================
