------------------------------ MODULE MCStreamPipe ------------------------------
(* Instance of StreamPipe for TLC. *)
EXTENDS StreamPipe

MCComponents ==
    { [type |-> "VTODO", props |-> <<Prop("a")>>,
       sub |-> <<[type |-> "VALARM", props |-> << >>, sub |-> << >>]>>],
      [type |-> "VEVENT", props |-> << >>, sub |-> << >>] }
=============================================================================
