---------------------------- MODULE AnswerStream ----------------------------
(***************************************************************************)
(* What the browser is promised of a response that comes through a tunnel: *)
(* the host's response in order, or a page of the relay's own in its       *)
(* place, and one end after which there is nothing.  Short of a failure    *)
(* the end comes when everything has.                                      *)
(***************************************************************************)
EXTENDS Naturals, Sequences

VARIABLES
    reply,      \* of DSH: none, head, ended or failed
    sent,       \* its response chunks so far
    lost,       \* the tunnel is lost
    head,       \* what the browser has: no head, that of the host, or that of a page
    got,        \* response chunks
    ended       \* the end of the response

sourceVars == <<reply, sent, lost>>
browserVars == <<head, got, ended>>

Init ==
    /\ reply = "none" /\ sent = 0 /\ lost = FALSE
    /\ head = "none" /\ got = <<>> /\ ended = FALSE

\* DSH answers or fails, and the tunnel is lost for good.
Source ==
    /\ \/ UNCHANGED <<reply, sent>>
       \/ reply = "none" /\ reply' \in {"head", "failed"} /\ UNCHANGED sent
       \/ reply = "head" /\ sent' = sent + 1 /\ UNCHANGED reply
       \/ reply = "head" /\ reply' \in {"ended", "failed"} /\ UNCHANGED sent
    /\ lost => lost'

Begin ==
    /\ head = "none" /\ reply # "none"
    /\ head' = "host"
    /\ UNCHANGED <<got, ended>>

Read ==
    /\ head = "host" /\ Len(got) < sent
    /\ got' = Append(got, Len(got) + 1)
    /\ UNCHANGED <<head, ended>>

\* The end, which may come with the loss of the tunnel.
End ==
    /\ head = "host"
    /\ \/ reply = "ended" /\ Len(got) = sent
       \/ reply = "failed"
       \/ lost'
    /\ ended' = TRUE
    /\ UNCHANGED <<head, got>>

Page ==
    /\ head = "none"
    /\ head' = "page" /\ ended' = TRUE
    /\ UNCHANGED got

Browser == ~ended /\ (Begin \/ Read \/ End \/ Page)

Next == Source /\ (Browser \/ UNCHANGED browserVars)

Spec == Init /\ [][Next]_<<sourceVars, browserVars>>
=============================================================================
