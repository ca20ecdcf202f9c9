--------------------------- MODULE MC_SecurePair ---------------------------
(* Peers and applications for TLC.                                          *)
EXTENDS SecurePair

Listeners == {"secure", "data", "cb", "error"}

Program(peer, ends, slow, calls, from) ==
  [peer |-> peer, ends |-> ends, slow |-> slow, calls |-> calls, from |-> from,
   writes |-> 2, pauses |-> 2]

Talk == <<Hello, 1, 2>>

MCPrograms ==
  {Program(Talk, ends, slow, calls, Listeners) : ends \in BOOLEAN, slow \in BOOLEAN,
     calls \in {{"write", "end"}, {"write", "pause"}, {"pause", "end"}, {"write", "destroy"}}}
  \cup {Program(peer, TRUE, FALSE, {"write", "end", "pause"}, Listeners) :
          peer \in {<<Bad>>, <<Hello, Bad>>, <<Hello, 1, Bad>>}}
  \cup {Program(Talk, TRUE, FALSE, {"write", "pause"}, Listeners \cup {"drain"})}
=============================================================================
