----------------------------- MODULE MCAuditing -----------------------------
(* Workloads for Auditing.                                                   *)
EXTENDS Auditing

\* A login, a request of any kind and a token that is found expired race, while
\* the worker collects but does not dispatch.
Races == [kinds |-> [l |-> {"login"}, m |-> RequestKinds \ {"expired"},
                     x |-> {"expired"}],
          batches |-> 0]

\* A login, a logout or other request and an expired token, with the worker and its senders.
Records == [kinds |-> [l |-> {"login"}, m |-> {"logout", "other"}, x |-> {"expired"}],
            batches |-> 2]

\* Four events for the worker and its senders.
Batches == [kinds |-> [l |-> {"logout"}, m |-> {"other"}, x |-> {"other"}],
            batches |-> 3]

MCWorkloads == {Races, Records, Batches}
MCUser == [l |-> "u1", m |-> "u2", x |-> "u1"]
=============================================================================
