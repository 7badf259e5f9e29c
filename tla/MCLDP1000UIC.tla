--------------------------- MODULE MCLDP1000UIC ---------------------------
(* The user index with a text buffer of one cell: function codes 0 to 2,   *)
(* an end of text, a byte that ends the mode as invalid.                   *)
EXTENDS LDP1000UIC

MCArguments == {0, 1, 2, EndOfText, 96}
=============================================================================
