--------------------------- MODULE MCCustomEngine ---------------------------
(* Small instances of the custom engine. *)
EXTENDS CustomEngine

MCActive == <<"sql-injection", "path-traversal", "ssrf">>

\* A protected object with inputs that look like a URL and like a path, an operation that
\* needs no credentials and an administrative one without inputs.
MCInventory ==
    <<[method |-> "GET", auth |-> TRUE, parameter |-> TRUE, admin |-> FALSE,
       points |-> <<{"sql-injection", "ssrf"}, {"sql-injection", "path-traversal"},
                    {"sql-injection"}>>],
      [method |-> "POST", auth |-> FALSE, parameter |-> FALSE, admin |-> FALSE,
       points |-> <<{"sql-injection"}>>],
      [method |-> "HEAD", auth |-> FALSE, parameter |-> FALSE, admin |-> TRUE,
       points |-> << >>]>>
=============================================================================
