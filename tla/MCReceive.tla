----------------------------- MODULE MCReceive -----------------------------
(* Small instances of Receive for TLC.                                       *)
EXTENDS Receive, SequencesExt

Msg(kind, hdr, bytes) ==
  [kind |-> kind, hdr |-> hdr, len |-> bytes, end |-> 0, nul |-> FALSE, sep |-> 0]

(* The messages with the positions of their last bytes.                      *)
Script(msgs) ==
  [m \in DOMAIN msgs |-> [msgs[m] EXCEPT
     !.end = FoldLeft(LAMBDA sum, msg : sum + msg.hdr + msg.len, 0, SubSeq(msgs, 1, m))]]

(* Requests whose bodies come with the header or in parts, with known and    *)
(* unknown methods.                                                          *)
Requests == <<Msg("post", 4, 9), Msg("post", 3, 1), Msg("put", 3, 2), Msg("put", 3, 1)>>

(* Bodies with an HTTP_END that comes with the header, with one that is cut  *)
(* off by the page, and with a NUL in front.                                 *)
Binary == <<[Msg("post", 4, 9) EXCEPT !.sep = 2], [Msg("post", 4, 9) EXCEPT !.sep = 4],
            [Msg("post", 4, 9) EXCEPT !.nul = TRUE]>>

(* Frames below and above the page size, with 7 and 16-bit lengths.          *)
Frames == <<Msg("upgrade", 4, 0), Msg("text", 6, 1), Msg("text", 8, 4), Msg("ping", 6, 0)>>
Ends   == <<Msg("get", 4, 0), Msg("upgrade", 4, 0), Msg("text", 6, 2), Msg("badtext", 6, 1)>>
Closes == <<Msg("upgrade", 4, 0), Msg("ping", 6, 1), Msg("close", 6, 0), Msg("text", 6, 1)>>

AllScripts == {Script(s) : s \in {Requests, Binary, Frames, Ends, Closes}}
=============================================================================
