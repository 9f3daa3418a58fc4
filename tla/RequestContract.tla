-------------------------- MODULE RequestContract --------------------------
(***************************************************************************)
(* What the callers of execute, execute_streaming and execute_with_hooks   *)
(* may rely on, without contexts, pointers, globals or engine phases:      *)
(* calls run one at a time; while one runs PHP says things for it and      *)
(* reads its request body once, front to back; the call ends by returning  *)
(* everything that was said for it and nothing else, or by returning an    *)
(* error or panicking with no response.                                    *)
(***************************************************************************)
EXTENDS SapiCallbacks

CONSTANTS Calls, None, PostLen

VARIABLES
    mode,   \* "hooks" or "stream" for each call
    phase,  \* "idle", "running" or "over" for each call
    said,   \* what PHP said and read for a call that is running
    heard,  \* what a call's streaming callback was given
    last    \* the last call that ended, and what it returned

vars == <<mode, phase, said, heard, last>>

Nothing  == [chunks |-> 0, logs |-> 0, hdrs |-> <<>>, code |-> 200, post |-> <<>>]
Unheard  == [got |-> <<>>, whole |-> TRUE]
NoAnswer == IntoResult(NewContext(<<>>, FALSE), <<>>, <<>>)

Init ==
    /\ mode  = [c \in Calls |-> "hooks"]
    /\ phase = [c \in Calls |-> "idle"]
    /\ said  = [c \in Calls |-> Nothing]
    /\ heard = [c \in Calls |-> Unheard]
    /\ last  = [call |-> None, outcome |-> "rejected",
                response |-> NoAnswer, heard |-> Unheard]

Written(c, n) == [i \in 1 .. n |-> <<c, i>>]

\* s is t with some elements left out.
IsSubsequence(s, t) ==
    \E positions \in SUBSET (1 .. Len(t)) : s = Kept(t, positions)

Start(c) ==
    /\ phase[c] = "idle"
    /\ \E m \in {"hooks", "stream"} : mode' = [mode EXCEPT ![c] = m]
    /\ \A d \in Calls : phase[d] # "running"
    /\ phase' = [phase EXCEPT ![c] = "running"]
    /\ UNCHANGED <<said, heard, last>>

Refuse(c) ==
    /\ phase[c] = "idle"
    /\ \A d \in Calls : phase[d] # "running"
    /\ phase' = [phase EXCEPT ![c] = "over"]
    /\ last'  = [call |-> c, outcome |-> "rejected",
                 response |-> NoAnswer, heard |-> Unheard]
    /\ UNCHANGED <<mode, said, heard>>

Extends(t, s) == Len(t) >= Len(s) /\ SubSeq(t, 1, Len(s)) = s

\* More is said for the running call; none of it is taken back, and the body
\* is read on from where it was.
Says(old, new) ==
    /\ new.chunks >= old.chunks
    /\ new.logs >= old.logs
    /\ Extends(new.hdrs, old.hdrs)
    /\ Len(new.post) >= Len(old.post)
    /\ new.post = [i \in 1 .. Len(new.post) |-> i]
    /\ Len(new.post) <= PostLen

\* A streaming callback is given the next pieces, or loses some by panicking.
Hears(old, new, c, n) ==
    /\ Extends(new.got, old.got)
    /\ new.whole => old.whole /\ new.got = Written(c, Len(new.got))
    /\ Len(new.got) <= n

Say(c) ==
    /\ phase[c] = "running"
    /\ said'  = [said EXCEPT ![c] = said'[c]] /\ Says(said[c], said'[c])
    /\ heard' = [heard EXCEPT ![c] = heard'[c]]
    /\ Hears(heard[c], heard'[c], c, said[c].chunks)
    /\ UNCHANGED <<mode, phase, last>>

Finish(c) ==
    /\ phase[c] = "running"
    /\ phase' = [phase EXCEPT ![c] = "over"]
    /\ said'  = [said EXCEPT ![c] = Nothing]
    /\ heard' = [heard EXCEPT ![c] = Unheard]
    /\ UNCHANGED mode

\* A response: status as last set, headers as set and filtered by the hooks,
\* every message; the whole body, or none when it went to a callback or a
\* hook took it.  A callback that never panicked was given the whole body.
Answer(c) ==
    LET r == last'.response
        w == Written(c, said[c].chunks)
    IN  /\ Finish(c)
        /\ last'.call = c /\ last'.outcome = "ok" /\ last'.heard = heard[c]
        /\ r.status   = ClampStatus(said[c].code)
        /\ r.messages = Written(c, said[c].logs)
        /\ IF mode[c] = "stream"
           THEN /\ r.body = <<>>
                /\ r.headers = ParsedHeaders(said[c].hdrs)
                /\ heard[c].whole => heard[c].got = w
           ELSE /\ r.body \in {w, <<>>}
                /\ IsSubsequence(r.headers, ParsedHeaders(said[c].hdrs))
                /\ heard[c] = Unheard

\* StartupFailed, or a hook's panic on its way to the caller.
GiveUp(c) ==
    /\ Finish(c)
    /\ \E outcome \in {"startup_failed", "panicked"} :
          last' = [call |-> c, outcome |-> outcome,
                   response |-> NoAnswer, heard |-> heard[c]]

Next == \E c \in Calls : Start(c) \/ Refuse(c) \/ Say(c) \/ Answer(c) \/ GiveUp(c)

Spec == Init /\ [][Next]_vars
=============================================================================
