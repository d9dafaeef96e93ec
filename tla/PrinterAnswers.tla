--------------------------- MODULE PrinterAnswers --------------------------
(***************************************************************************)
(* The answers of a printer, for the model of printer_status.              *)
(*                                                                         *)
(* An answer is a sequence of pieces; a piece is a sequence of tokens,     *)
(* each standing for a stretch of bytes that arrives whole and counts as   *)
(* one: the status line up to its carriage return, a line feed, a carriage *)
(* return, other header text, the Content-Length field with its value (the *)
(* number of tokens of the IPP header) and its carriage return, and the    *)
(* two halves of the IPP header.                                           *)
(***************************************************************************)
EXTENDS Naturals, Sequences

Status(s) == [t |-> "status", v |-> s]  \* s: "info", "ok", "error" or "bad"
LF == [t |-> "lf", v |-> "none"]
CR == [t |-> "cr", v |-> "none"]
Text == [t |-> "text", v |-> "none"]
ContentLength == [t |-> "length", v |-> "none"]
IppId(j) == [t |-> "id", v |-> j]       \* j: "same" or "other" job
IppStatus(s) == [t |-> "ipp", v |-> s]  \* s: "ok" or "error"
Garbage == [t |-> "garbage", v |-> "none"]
IppLength == 2                          \* value of the Content-Length field
-----------------------------------------------------------------------------
Length == <<ContentLength, LF>>
Line == <<Text, CR, LF>>
Empty == <<CR, LF>>
Ipp == {<<IppId(j), IppStatus(s)>> : j \in {"same", "other"}, s \in {"ok", "error"}}

\* A HTTP header in one piece or several, and the IPP header that follows.
Ok == <<Status("ok"), LF>>
Replies(ipp) ==
  {<<Ok \o Length \o Empty \o ipp>>,
   <<Ok \o Line \o Length \o Empty \o ipp>>,
   <<Ok \o Length \o Line \o Empty \o ipp>>,
   <<Ok \o Length \o Empty, ipp>>,
   <<Ok \o <<Text>>, <<CR, LF>> \o Length \o Empty \o ipp>>,
   <<Ok, Length \o Empty \o ipp>>,
   <<Ok \o <<ContentLength>>, <<LF>> \o Line \o Empty \o ipp>>}

\* Answers that end too early, or refuse the job.
Short == {<<Ok>>, <<Ok \o <<ContentLength>> >>, <<Ok \o Length \o Empty>>,
          <<Ok \o Length \o Empty \o <<IppId("same")>> >>,
          << <<Status("error")>> \o Length \o Empty>>}
Before == {<<>>, << <<Status("info"), LF>> >>, << <<Status("bad"), LF>> >>}

AllAnswers == {b \o r : b \in Before, r \in Short \cup UNION {Replies(p) : p \in Ipp}}

\* One positive answer, to be cut anywhere.
OneAnswer == {<<Ok \o Length \o Empty \o <<IppId("same"), IppStatus("ok")>> >>}
=============================================================================
