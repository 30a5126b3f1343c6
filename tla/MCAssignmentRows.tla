-------------------------- MODULE MCAssignmentRows --------------------------
(***************************************************************************)
(* A small instance of AssignmentRows: every kind of URL, and controls on  *)
(* both sides of every limit.                                              *)
(***************************************************************************)
EXTENDS AssignmentRows

MCUrl ==
  {[text |-> "a", parses |-> TRUE, credentials |-> FALSE, scheme |-> "https"],
   [text |-> "b", parses |-> TRUE, credentials |-> FALSE, scheme |-> "http"],
   [text |-> "c", parses |-> TRUE, credentials |-> TRUE, scheme |-> "https"],
   [text |-> "d", parses |-> TRUE, credentials |-> FALSE, scheme |-> "file"],
   [text |-> "e", parses |-> FALSE, credentials |-> FALSE, scheme |-> "none"]}

KeyDto(page, index) == [kind |-> "key", page |-> page, index |-> index, operation |-> "none"]
EncoderDto(page, index, operation) ==
  [kind |-> "encoder", page |-> page, index |-> index, operation |-> operation]

\* The last page, key and encoder, what is one past each of them, and what is
\* the same in its low byte.
MCDto ==
  {KeyDto(3, 11), KeyDto(4, 11), KeyDto(3, 12), KeyDto(259, 11), KeyDto(3, 267),
   EncoderDto(3, 1, "left"), EncoderDto(3, 1, "press"), EncoderDto(3, 2, "left"),
   EncoderDto(3, 257, "left")}
=============================================================================
