------------------------------ MODULE TextBlocks ------------------------------
(***************************************************************************)
(* The text blocks of a knowledge box: paragraphs of the fields of its     *)
(* resources, each from a first to a last character of its field.          *)
(***************************************************************************)
CONSTANTS
  Blocks,
  BlockField,    \* block -> the field it is in
  BlockResource, \* block -> the resource it is of
  BlockStart,    \* block -> its first character
  BlockEnd       \* block -> the character after its last

=============================================================================
