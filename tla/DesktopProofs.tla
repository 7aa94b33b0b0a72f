--------------------------- MODULE DesktopProofs ---------------------------
(***************************************************************************)
(* Proofs about MCDesktop, the parts of the application next to one        *)
(* another: they share no state, so a behaviour of the whole is a          *)
(* behaviour of each part, and what is proved of a part holds of the whole.*)
(***************************************************************************)
EXTENDS MCDesktop, MachineProofs, HostProofs, AccountProofs, WireProofs

\* The whole starts with each part at its start.
LEMMA PartsStart ==
  DesktopInit =>
    /\ FileInit /\ PoolInit /\ TransferInit /\ QuotasInit /\ HistoryInit /\ UpdateInit
    /\ ClientInit /\ ToolInit /\ LinkInit /\ MeteringInit /\ DiagInit /\ InvitesInit
  BY DEF DesktopInit

\* A step of the whole is, for each part, a step of that part or none of its own:
\* another part moves and this one rests.
LEMMA PartsStep ==
  ASSUME [DesktopNext]_desktopVars
  PROVE  /\ [FileNext]_fileVars
         /\ [PoolNext]_poolVars
         /\ [TransferNext]_transferVars
         /\ [QuotasNext]_quotasVars
         /\ [HistoryNext]_historyVars
         /\ [UpdateNext]_updateVars
         /\ [ClientNext]_clientVars
         /\ [ToolNext]_toolVars
         /\ [LinkNext]_linkVars
         /\ [MeteringNext]_meteringVars
         /\ [DiagNext]_diagVars
         /\ [InvitesNext]_invitesVars
<1>1. CASE UNCHANGED desktopVars
  BY <1>1, Zenon DEF desktopVars
<1>2. CASE DesktopNext
  <2>1. Elsewhere
    BY <1>2, Zenon DEF DesktopNext
  <2>2. part = "file" => FileNext
    BY <1>2 DEF DesktopNext
  <2>3. part = "pool" => PoolNext
    BY <1>2 DEF DesktopNext
  <2>4. part = "transfer" => TransferNext
    BY <1>2 DEF DesktopNext
  <2>5. part = "quotas" => QuotasNext
    BY <1>2 DEF DesktopNext
  <2>6. part = "history" => HistoryNext
    BY <1>2 DEF DesktopNext
  <2>7. part = "update" => UpdateNext
    BY <1>2 DEF DesktopNext
  <2>8. part = "client" => ClientNext
    BY <1>2 DEF DesktopNext
  <2>9. part = "tool" => ToolNext
    BY <1>2 DEF DesktopNext
  <2>10. part = "link" => LinkNext
    BY <1>2 DEF DesktopNext
  <2>11. part = "metering" => MeteringNext
    BY <1>2 DEF DesktopNext
  <2>12. part = "log" => DiagNext
    BY <1>2 DEF DesktopNext
  <2>13. part = "invites" => InvitesNext
    BY <1>2 DEF DesktopNext
  <2> QED
    BY <2>1, <2>2, <2>3, <2>4, <2>5, <2>6, <2>7, <2>8, <2>9, <2>10, <2>11, <2>12,
       <2>13, Zenon DEF Elsewhere, Rests
<1> QED BY <1>1, <1>2, Zenon

\* So every behaviour of the whole is one of each of its parts, by the way the whole is
\* put together (lib.rs, run, which sets the parts up next to one another).
LEMMA PartsRun ==
  DesktopSpec =>
    /\ FileSpec /\ PoolSpec /\ TransferSpec /\ QuotasSpec /\ HistorySpec /\ UpdateSpec
    /\ ClientSpec /\ ToolSpec /\ LinkSpec /\ MeteringSpec /\ DiagSpec /\ InvitesSpec
<1> QED
  BY PartsStart, PartsStep, PTL
     DEF DesktopSpec, FileSpec, PoolSpec, TransferSpec, QuotasSpec, HistorySpec,
         UpdateSpec, ClientSpec, ToolSpec, LinkSpec, MeteringSpec, DiagSpec, InvitesSpec

\* The state of the whole application is typed, and every store, list, queue and log of
\* it keeps within its limit, for any values of the constants (account_pool.rs
\* MAX_ACCOUNTS, account_transfer.rs MAX_SESSIONS, ride_history.rs MAX_RECORDS).
THEOREM DesktopStaysTyped == DesktopSpec => []DesktopTypeOK
<1> QED
  BY PartsRun, FileStaysTyped, PoolStaysTyped, TransferStaysTyped, QuotasStayTyped,
     HistoryStaysTyped, UpdateStaysTyped, ClientsStayTyped, ToolStaysTyped, LinkStaysTyped,
     MeteringStaysTyped, LogsStayTyped, InvitesStayTyped, PTL DEF DesktopTypeOK

\* What is proved of the parts without any condition holds of the application at once:
\* whatever commands, rides, tasks and failures there are, in whichever part.
THEOREM DesktopStaysSound ==
  DesktopSpec =>
    /\ [](/\ OfficialOnce /\ ShownBeforeApplied /\ BestAccountSpeaks
          /\ HistoryIsSound /\ InstallsAndRidesExclude /\ OriginalKept
          /\ PointerIsSound /\ RequestsAccounted /\ LogsKeepTheNewest /\ DamageIsContained
          /\ InvitesAreTrue)
    /\ ImportsAreFaithful /\ LastResultStays /\ VerifiedIsKept /\ UntouchedWhileInUse
<1> QED
  BY PartsRun, OfficialStaysOnce, AppliedOnceAsShown, BestAccountDecides,
     HistoryStaysSound, RidesAreSafe, OriginalStaysKept, PointerStaysSound,
     RequestsStayAccounted, LogsStayKept, DamageStaysContained, InvitesHold, ImportsStayFaithful,
     QuotaResultsStay, UpdateStays, ClientsStayUntouched, PTL
=============================================================================
