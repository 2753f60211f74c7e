------------------------------ MODULE MCH2Send ------------------------------
(* H2Send for TLC. *)
EXTENDS H2Send, TLC

Sym == Permutations(Streams)

\* Bodies: endless ones of two-frame chunks, ones that end in an empty DATA frame, and
\* ones of two frames.
Long == {[want |-> 2, eos |-> FALSE]}
Ending == Long \cup {[want |-> 0, eos |-> TRUE]}
TwoFrames == {[want |-> 2, eos |-> TRUE]}

Scene(threads, server, chunks, env) ==
    [preemptive |-> threads, server |-> server, chunks |-> chunks, env |-> env]

\* Threads: senders that compete for the window, and resets that race them. asyncio:
\* SETTINGS that shrink windows below zero and overflow them; a client torn down in
\* every way; a server, where END_STREAM of the response closes the stream.
SafeScenes ==
    {Scene(TRUE, FALSE, TwoFrames, {"peerReset"}),
     Scene(FALSE, FALSE, Ending, {"settings", "overflow"}),
     Scene(FALSE, FALSE, Ending, {"overflow", "peerReset", "appReset", "eof", "writeError"}),
     Scene(FALSE, TRUE, Ending, {"peerEnd", "peerReset", "appReset", "eof", "writeError"})}

\* A peer that only grants window.
LiveScenes == {Scene(FALSE, FALSE, Long, {})}

\* What is left of a stream that is gone decides nothing.
Kept(f, default) == [s \in Streams |-> IF sst[s] = "gone" THEN default ELSE f[s]]
View == <<scene, sst, Kept(recvDone, FALSE), failed, initWin, conn, Kept(flow, 0), Kept(buffered, 0),
          Kept(credit, 0), Kept(inflight, 0), q, evt, writeEvt, pc, chunk, wpc, rpc, owes>>
=============================================================================
