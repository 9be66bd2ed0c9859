------------------------------ MODULE MCDaemon ------------------------------
(* Instances of Daemon for TLC: connection "a" leads to peer "left",        *)
(* connection "b" to peer "right", and "a2" is a second one to "left".      *)
EXTENDS Daemon, TLC

MCRemoteOf == [c \in Conns |-> IF c = "b" THEN "right" ELSE "left"]

\* For the liveness run the user does less: only keys and buttons are
\* captured (a mouse move is the event that leaves without waiting), no
\* breakout is retried, and Ctrl+C in the terminal is left to the safety run.
FewInputs ==
    /\ "move" \notin {queue'[i] : i \in DOMAIN queue'}
    /\ hook' = "idle"
    /\ running' = FALSE => exiting

\* For the safety run with two connections nobody exits, and the sender task
\* and the UDP receiver, which share no mutex they could wait for in turn, are
\* not both in the middle of something, and neither is once a breakout has left
\* the cursor hidden.
OneStream ==
    /\ running' /\ ~exiting'
    /\ skipped' > 0 => queue' = <<>> /\ pc'[Sender] = "recv" /\ pc'[Udp] = "recv"
    /\ \/ queue' = <<>> /\ pc'[Sender] = "recv"
       \/ /\ pc'[Udp] = "recv" /\ hook' = "idle"
          /\ "move" \notin {queue'[i] : i \in DOMAIN queue'}

\* No guard reads what a channel holds, only how much.
Lengths == [c \in Conns |-> Len(chan[c])]
NoContents == <<session, cursor, skipped, holder, pc, peers, registered, Lengths,
                writer, queue, sending, hook, exiting, running>>

LiveSpec == Init /\ [][Next /\ FewInputs]_vars /\ Fairness
=============================================================================
