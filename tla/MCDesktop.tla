----------------------------- MODULE MCDesktop -----------------------------
(***************************************************************************)
(* The parts of the application that share no state with one another, or   *)
(* with the ride protocol, checked in one run.  Because they share nothing, *)
(* a behaviour of the whole is one behaviour of each, interleaved in any    *)
(* way, and a property of one holds of the whole if it holds of that part   *)
(* alone: each behaviour below picks a part and lets it run while the       *)
(* others rest.                                                            *)
(***************************************************************************)
EXTENDS AccountFile, AccountPool, AccountTransfer, Quotas, RideHistory,
        AppUpdate, ClientConfig, ToolProvisioner, Link, Metering, Diagnostics, Invites,
        TLC

VARIABLE part   \* the part that runs

desktopVars == <<part, fileVars, poolVars, transferVars, quotasVars, historyVars,
                 updateVars, clientVars, toolVars, linkVars, meteringVars,
                 diagVars, invitesVars>>

DesktopInit ==
    /\ part \in {"file", "pool", "transfer", "quotas", "history", "update",
                 "client", "tool", "link", "metering", "log", "invites"}
    /\ FileInit /\ (part # "file" => build = "unix" /\ main = Absent)
    /\ PoolInit /\ TransferInit /\ QuotasInit
    /\ HistoryInit /\ (part # "history" => hbuild = "unix" /\ hfile = NoFile)
    /\ UpdateInit
    /\ ClientInit /\ (part # "client" => \A t \in Tool : marker[t] = "none")
                  /\ (part # "client" => regfile = "fine" /\ setting = [store |-> {}, slow |-> FALSE])
    /\ ToolInit /\ LinkInit /\ MeteringInit /\ DiagInit
    /\ InvitesInit

Rests(p, vars) == IF part = p THEN TRUE ELSE UNCHANGED vars

Elsewhere ==
    /\ part' = part
    /\ Rests("file", fileVars) /\ Rests("pool", poolVars)
    /\ Rests("transfer", transferVars) /\ Rests("quotas", quotasVars)
    /\ Rests("history", historyVars) /\ Rests("update", updateVars)
    /\ Rests("client", clientVars) /\ Rests("tool", toolVars)
    /\ Rests("link", linkVars) /\ Rests("metering", meteringVars)
    /\ Rests("log", diagVars) /\ Rests("invites", invitesVars)

DesktopNext ==
    \/ part = "file" /\ FileNext /\ Elsewhere
    \/ part = "pool" /\ PoolNext /\ Elsewhere
    \/ part = "transfer" /\ TransferNext /\ Elsewhere
    \/ part = "quotas" /\ QuotasNext /\ Elsewhere
    \/ part = "history" /\ HistoryNext /\ Elsewhere
    \/ part = "update" /\ UpdateNext /\ Elsewhere
    \/ part = "client" /\ ClientNext /\ Elsewhere
    \/ part = "tool" /\ ToolNext /\ Elsewhere
    \/ part = "link" /\ LinkNext /\ Elsewhere
    \/ part = "metering" /\ MeteringNext /\ Elsewhere
    \/ part = "log" /\ DiagNext /\ Elsewhere
    \/ part = "invites" /\ InvitesNext /\ Elsewhere

DesktopSpec == DesktopInit /\ [][DesktopNext]_desktopVars

\* The types of all the parts, and the limits their stores, lists and queues keep.
DesktopTypeOK ==
    /\ AccountFileTypeOK /\ PoolTypeOK /\ TransferTypeOK /\ QuotasTypeOK
    /\ HistoryTypeOK /\ UpdateTypeOK /\ ConfigTypeOK /\ ToolTypeOK
    /\ LinkTypeOK /\ MeteringTypeOK /\ DiagTypeOK
    /\ InvitesTypeOK

-----------------------------------------------------------------------------
(***************************************************************************)
(* The values of the constants that are not given in the configuration.    *)
(***************************************************************************)
CONSTANTS offA, offB, login1, tokT, tokU, carA, carB

\* A write on Windows has two renames, each of which may be refused.
Refusals == ("unix" :> 2) @@ ("windows" :> 1)

Cand(o, k, l) == [official |-> o, token |-> k, login |-> l]
Batches ==
    {<<Cand(offB, tokU, login1)>>, <<Cand(offB, tokU, Unknown)>>,
     <<Cand(offA, tokT, Unknown), Cand(Unknown, tokT, login1), Cand(offA, tokT, Unknown)>>}

InviteCodes == (carA :> <<"k1">>) @@ (carB :> <<"k2">>)

SharedTools == (carA :> {"claude"}) @@ (carB :> {"codex"})

\* A slow start is looked at for a Store client, whose own configuration is at stake.
Installation(store, slow) == [store |-> store, slow |-> slow]
Settings == {Installation({}, FALSE), Installation({"t1"}, FALSE), Installation({"t1"}, TRUE)}

Artifact(v, t) == [version |-> v, target |-> t]
Announced(v, url, signed) == [version |-> v, url |-> url, signed |-> signed]
Offers ==
    {Announced(1, Artifact(1, "here"), Artifact(1, "here")),
     Announced(2, Artifact(2, "here"), Artifact(2, "here")),
     Announced(2, Artifact(1, "here"), Artifact(1, "here")),
     Announced(2, Artifact(2, "here"), Artifact(1, "here")),
     Announced(2, Artifact(2, "there"), Artifact(2, "there"))}

Reported(i, o, r, w, w5, w1) ==
    [input |-> i, output |-> o, read |-> r, write |-> w, write5 |-> w5, write1 |-> w1]
RateCard(i, o, c) == [input |-> i, output |-> o, read |-> c, write5 |-> c, write1 |-> c]
PriceList ==
    ("listed" :> {[base |-> RateCard(2, 3, {1}), long |-> {RateCard(4, 5, {})}]})
        @@ ("unlisted" :> {})
Answered1(tool, model, hour, accepted, reports) ==
    [tool |-> tool, model |-> model, hour |-> hour, accepted |-> accepted,
     events |-> reports]
Answers ==
    {Answered1("Claude", "listed", TRUE, TRUE,
               <<Reported(1, 0, 1, 0, 0, 1), Reported(1, 1, 0, 0, 0, 0)>>),
     Answered1("Codex", "listed", FALSE, TRUE, <<Reported(2, 1, 1, 1, 0, 0)>>),
     Answered1("Claude", "unlisted", FALSE, TRUE, <<Reported(1, 0, 0, 0, 0, 0)>>),
     Answered1("Claude", "listed", FALSE, FALSE, <<Reported(1, 1, 0, 0, 0, 0)>>),
     Answered1("Codex", "listed", FALSE, TRUE, <<Reported(0, 0, 0, 0, 0, 0)>>)}
SomeLimits == {[five |-> 2, day |-> 0, week |-> 4]}
=============================================================================
