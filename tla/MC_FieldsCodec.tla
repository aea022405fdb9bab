--------------------------- MODULE MC_FieldsCodec ---------------------------
(* Instance of FieldsCodec: strings of up to four characters over "a", "=" *)
(* and "&", and lists of up to two pairs of one-character keys and values; *)
(* header lists of up to two headers with names and values of up to two  *)
(* characters over "a", ":" and " ".                                       *)
EXTENDS FieldsCodec

MCChars == {"a", "=", "&"}

MCHeaderChars == {"a", ":", " "}

=============================================================================
