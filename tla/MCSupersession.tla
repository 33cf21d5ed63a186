---------------------------- MODULE MCSupersession ----------------------------
(* Instance of Supersession for TLC. *)
EXTENDS Supersession

CONSTANTS u1, u2

\* Entries of other producers: what the query must tell apart.
Wire(type, stamp, rel, super, status) ==
    [body |-> [type |-> type, uid |-> NoUID, stamp |-> stamp, rel |-> rel,
               super |-> super, status |-> status, rev |-> 0],
     hash |-> NoHash]

MCBaseUIDs == {u1, u2}

MCForeign ==
    LET s == CHOOSE s \in Statuses : TRUE
    IN  { Wire("VTODO", 2, <<u1>>, TRUE, s),           \* not a journal
          Wire("VJOURNAL", 2, <<u1>>, FALSE, s),       \* a plain journal entry
          Wire("VJOURNAL", 2, <<u1>>, TRUE, NoStatus), \* status missing
          Wire("VJOURNAL", 2, <<u2, u1>>, TRUE, s),    \* u1 only second
          Wire("VJOURNAL", 1, << >>, TRUE, s),         \* RELATED-TO missing
          Wire("VJOURNAL", 0, <<u1>>, TRUE, s) }       \* DTSTAMP unparseable
=============================================================================
