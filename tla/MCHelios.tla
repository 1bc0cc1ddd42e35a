------------------------------ MODULE MCHelios ------------------------------
(* Bytes for Helios. *)
EXTENDS Helios

MCBytes == {Data, BlankRun("blank", 2), BlankRun("column", 2), Mode({}), Mode({"DOUBLE_WIDE"}),
            Eol(FALSE), Eol(TRUE)}
=============================================================================
