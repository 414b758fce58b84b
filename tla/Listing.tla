------------------------------ MODULE Listing ------------------------------
(***************************************************************************)
(* `afk sessions` (session.rs sessions, registry.rs list) beside the calls *)
(* and runners of module Session: Registry::open with its cleanup, then    *)
(* the scan of the directory, for the one ID of the model.  A record is    *)
(* listed in two steps, verify_path and File::open: it is skipped when the *)
(* first finds nothing, but the command fails when the second does.        *)
(***************************************************************************)
EXTENDS Session

VARIABLES look,   \* where the listing is; one may follow another
          since   \* history: the run being served when it began, if any
lookVars == <<look, since>>
listingVars == <<vars, lookVars>>

ListingInit == Init /\ look = "idle" /\ since = NoRun

LookBegin ==
    /\ look \in {"idle", "over"}
    /\ look' = "clean"
    /\ \/ \E r \in Calls : run[r] = "serving" /\ since' = r
       \/ (\A r \in Calls : run[r] # "serving") /\ since' = NoRun
    /\ UNCHANGED vars

\* cleanup_expired reads the record and judges its age ...
LookClean ==
    /\ look = "clean"
    /\ look' = IF Expired(meta) THEN "cleanOut" ELSE "verify"
    /\ UNCHANGED <<vars, since>>

\* ... and remove_completed removes what is there by then.
LookCleanOut ==
    /\ look = "cleanOut"
    /\ out' = NoRun
    /\ look' = "cleanMeta"
    /\ UNCHANGED <<meta, sock, lock, callVars, runVars, expired, since>>
LookCleanMeta ==
    /\ look = "cleanMeta"
    /\ meta' = NoMeta
    /\ look' = "verify"
    /\ UNCHANGED <<sock, lock, out, callVars, runVars, expired, since>>

\* read_bounded_file: verify_path, whose NotFound is no such session.
LookSkip ==
    /\ look = "verify"
    /\ meta.kind = "none"
    /\ look' = "over" /\ since' = NoRun
    /\ UNCHANGED vars
LookVerify ==
    /\ look = "verify"
    /\ meta.kind # "none"
    /\ look' = "open"
    /\ UNCHANGED <<vars, since>>

\* File::open and the read: the record is listed, or the command fails.
LookOpen ==
    /\ look = "open"
    /\ look' = "over" /\ since' = NoRun
    /\ UNCHANGED vars

LookStep ==
    \/ LookBegin \/ LookClean \/ LookCleanOut \/ LookCleanMeta
    \/ LookSkip \/ LookVerify \/ LookOpen

\* Removal is by path.  Without Overlap no new run is recorded between the
\* listing's look at an expired record and its removal.
CleanupAlone == look \in {"cleanOut", "cleanMeta"} => Overlap \/ committed' = committed
ListingNext ==
    \/ Next /\ CleanupAlone /\ UNCHANGED lookVars
    \/ LookStep

ListingSpec == ListingInit /\ [][ListingNext]_listingVars

-----------------------------------------------------------------------------
\* A session that is served from before the listing begins until it ends is in
\* the list, as live and as the run it is, and the command does not fail over
\* it, whatever is cleaned up, replaced or restarted meanwhile.
ServingListed ==
    [][look' = "over" /\ look # "over" /\ since \in Calls /\ run[since] = "serving" =>
         look = "open" /\ meta = Live(since)]_listingVars

=============================================================================
