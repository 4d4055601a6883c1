--------------------------- MODULE MCMockRegistry ----------------------------
(* A bounded instance of MockRegistry.  Its two tests disagree about what the    *)
(* nodes answer, so that serving a request from the wrong one shows.  One node is *)
(* enough for the races; the second tells whether each has its own counter.     *)
EXTENDS MockRegistry

TwoNodes == {"crm", "mail"}

\* Two injections compete for the second attempt and the first attempt's comes
\* last: the list is not sorted by attempt.
Failing == [mocks    |-> << >>,
            failures |-> << [node |-> "crm", type |-> "timeout",    occurrence |-> 2],
                            [node |-> "crm", type |-> "rate_limit", occurrence |-> 2],
                            [node |-> "crm", type |-> "http_500",   occurrence |-> 1] >>]

\* Injects on the first attempt only; of the two mocks the later one answers the rest.
Early == [mocks    |-> << [node |-> "crm", status |-> 201, error |-> FALSE, slow |-> FALSE],
                          [node |-> "crm", status |-> 0,   error |-> TRUE,  slow |-> TRUE] >>,
          failures |-> << [node |-> "crm", type |-> "malformed_output", occurrence |-> 1] >>]

TwoTests == {Failing, Early}
=============================================================================
