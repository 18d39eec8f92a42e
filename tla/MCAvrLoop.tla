----------------------------- MODULE MCAvrLoop -----------------------------
(* Values for TLC: a catalog with a run of two packets, replies of one     *)
(* message and of two frames, a ring that holds one run.                  *)
EXTENDS AvrLoop

MCCatalog == << [kind |-> "other", words |-> 1], [kind |-> "start", words |-> 2],
                [kind |-> "end", words |-> 2] >>

MCReply == [request |-> <<[kind |-> "other", words |-> 4]>>,
            inquiry |-> <<[kind |-> "start", words |-> 2], [kind |-> "end", words |-> 2],
                        [kind |-> "complete", words |-> 2]>>]

In(kind, words, value) == [kind |-> kind, words |-> words, value |-> value]
MCInbound == {In("echo", 1, 0), In("entry", 2, 4), In("pause", 2, 0), In("resume", 2, 0),
              In("burst", 2, 0), In("request", 4, 0), In("inquiry", 2, 0)}
=============================================================================
