----------------------------- MODULE AppUpdate -----------------------------
(***************************************************************************)
(* Updating the application (app_updater.rs) while rides come and go       *)
(* (runtime.rs, RideTransitionGuard).  The four updater commands share one *)
(* asynchronous lock, "pending", which a check or a download holds while   *)
(* it waits for the network; rides and installations exclude each other    *)
(* through two fields of the runtime.                                      *)
(***************************************************************************)
EXTENDS Naturals, FiniteSets

CONSTANTS Ride,       \* rides of this device, as host or as passenger
          Offer,      \* the updates the release server may announce
          Target,     \* the platform and architecture of this build
          Versioned,  \* the platform names its artifacts by version
          NoUpdate

ASSUME AppUpdateAssumption ==
    /\ NoUpdate \notin Offer
    /\ Versioned \in BOOLEAN

VARIABLES ride,        \* each ride: "off", "moving" in a transition, or "on"
          installing,  \* app_update_installing
          command,     \* the updater command that holds the lock
          pendingUpdate,     \* the update found, and whether its bytes are here
          latch,       \* restart_required
          leaving,     \* app.request_restart() was called
          installed    \* history: the update installed last

updateVars == <<ride, installing, command, pendingUpdate, latch, leaving, installed>>

Nothing == [offer |-> NoUpdate, verified |-> FALSE]

UpdateInit ==
    /\ ride = [r \in Ride |-> "off"]
    /\ installing = FALSE
    /\ command = "none"
    /\ pendingUpdate = Nothing
    /\ latch = FALSE
    /\ leaving = FALSE
    /\ installed = NoUpdate

-----------------------------------------------------------------------------
(***************************************************************************)
(* Rides.  start_car, resume_host_car and join_car hold a transition guard *)
(* from their first line to their last.                                    *)
(***************************************************************************)
BeginRide(r) ==
    /\ ride[r] = "off"
    /\ ~installing
    /\ ride' = [ride EXCEPT ![r] = "moving"]
    /\ UNCHANGED <<installing, command, pendingUpdate, latch, leaving, installed>>

\* The command ends; the ride is on, or it failed.
EndTransition(r) ==
    /\ ride[r] = "moving"
    /\ \E s \in {"on", "off"} : ride' = [ride EXCEPT ![r] = s]
    /\ UNCHANGED <<installing, command, pendingUpdate, latch, leaving, installed>>

EndRide(r) ==
    /\ ride[r] = "on"
    /\ ride' = [ride EXCEPT ![r] = "off"]
    /\ UNCHANGED <<installing, command, pendingUpdate, latch, leaving, installed>>

ActiveRide == \E r \in Ride : ride[r] # "off"

-----------------------------------------------------------------------------
(***************************************************************************)
(* An announced update names a file at its URL and carries a signed file   *)
(* name; both must agree, and fit the announced version and this build.    *)
(***************************************************************************)
Valid(o) ==
    /\ o.signed = o.url
    /\ Versioned => o.signed.version = o.version
    /\ o.signed.target = Target

Held(c) == command = c
Free == command = "none"

\* Fault: every check starts anew.
BeginCheckAnew ==
    /\ Free
    /\ command' = "check"
    /\ UNCHANGED <<ride, installing, pendingUpdate, latch, leaving, installed>>

\* check_signed_app_update: an update whose bytes are here is announced again.
BeginCheck ==
    /\ Free
    /\ ~pendingUpdate.verified
    /\ command' = "check"
    /\ UNCHANGED <<ride, installing, pendingUpdate, latch, leaving, installed>>

\* The server answers: no update, an invalid one (an error, which leaves what was
\* found before), or one to download.
CheckAnswered ==
    /\ Held("check")
    /\ command' = "none"
    /\ \E o \in Offer \cup {NoUpdate} :
         pendingUpdate' = IF o = NoUpdate THEN Nothing
                    ELSE IF Valid(o) THEN [offer |-> o, verified |-> FALSE]
                    ELSE pendingUpdate
    /\ UNCHANGED <<ride, installing, latch, leaving, installed>>

\* download_app_update; the plugin verifies the signature of the bytes.
BeginDownload ==
    /\ Free
    /\ pendingUpdate.offer # NoUpdate /\ ~pendingUpdate.verified
    /\ command' = "download"
    /\ UNCHANGED <<ride, installing, pendingUpdate, latch, leaving, installed>>

DownloadEnds ==
    /\ Held("download")
    /\ command' = "none"
    /\ \E ok \in BOOLEAN : pendingUpdate' = [pendingUpdate EXCEPT !.verified = ok]
    /\ UNCHANGED <<ride, installing, latch, leaving, installed>>

\* UpdateInstallGuard::begin, under the runtime's lock.
\* Fault: a ride in transition is not an active one.
MayInstallInTransition == (\A r \in Ride : ride[r] # "on") /\ ~installing

MayInstall == ~ActiveRide /\ ~installing

BeginInstall ==
    /\ Free
    /\ MayInstall
    /\ pendingUpdate.verified
    /\ command' = "install"
    /\ installing' = TRUE
    /\ UNCHANGED <<ride, pendingUpdate, latch, leaving, installed>>

InstallEnds ==
    /\ Held("install")
    /\ command' = "none"
    /\ installing' = FALSE
    /\ \/ /\ installed' = pendingUpdate.offer
          /\ pendingUpdate' = Nothing
          /\ latch' = TRUE
       \/ UNCHANGED <<installed, pendingUpdate, latch>>
    /\ UNCHANGED <<ride, leaving>>

\* restart_after_app_update: its guard is forgotten, so that nothing starts until
\* the process is gone.
Restart ==
    /\ Free
    /\ latch
    /\ MayInstall
    /\ installing' = TRUE
    /\ leaving' = TRUE
    /\ UNCHANGED <<ride, command, pendingUpdate, latch, installed>>

\* The process ends, as requested or not, and starts again.
Relaunch ==
    /\ ride' = [r \in Ride |-> "off"]
    /\ installing' = FALSE
    /\ command' = "none"
    /\ pendingUpdate' = Nothing
    /\ latch' = FALSE
    /\ leaving' = FALSE
    /\ UNCHANGED installed

UpdateNext ==
    \/ \E r \in Ride : BeginRide(r) \/ EndTransition(r) \/ EndRide(r)
    \/ BeginCheck \/ CheckAnswered \/ BeginDownload \/ DownloadEnds
    \/ BeginInstall \/ InstallEnds \/ Restart \/ Relaunch

UpdateSpec == UpdateInit /\ [][UpdateNext]_updateVars

-----------------------------------------------------------------------------
\* Types; what is verified is an update, and its installation is announced to rides.
UpdateTypeOK ==
    /\ ride \in [Ride -> {"off", "moving", "on"}]
    /\ installing \in BOOLEAN /\ latch \in BOOLEAN /\ leaving \in BOOLEAN
    /\ command \in {"none", "check", "download", "install"}
    /\ pendingUpdate \in [offer : Offer \cup {NoUpdate}, verified : BOOLEAN]
    /\ installed \in Offer \cup {NoUpdate}
    /\ pendingUpdate.verified => pendingUpdate.offer # NoUpdate
    /\ Held("install") => installing

\* No ride starts, runs or ends in transition while an update is installed, nor
\* from the request to restart until the process is gone: a restart for an update
\* never cuts a ride off.
InstallsAndRidesExclude == installing \/ leaving \/ Held("install") => ~ActiveRide

\* CHANGELOG.md: a failure keeps the verified update that waits.  Nothing but its
\* installation, or the end of the process, takes a verified update away.
VerifiedIsKept ==
    [][pendingUpdate.verified /\ pendingUpdate' # pendingUpdate =>
          pendingUpdate' = Nothing /\ (Relaunch \/ installed' = pendingUpdate.offer)]_updateVars
=============================================================================
