----------------------------- MODULE ConfigFeed -----------------------------
(***************************************************************************)
(* What the control plane promises about configuration push, without       *)
(* streams, locks or goroutines: one feed of numbered snapshots.           *)
(*                                                                         *)
(* The configuration is known by its revision, the number of changes made  *)
(* to it.  A notified change owes the feed one snapshot of a revision that *)
(* contains it; a snapshot may lack a part of its revision, and nothing on *)
(* the wire says so.  The one in place v of the feed has version v + 1.    *)
(***************************************************************************)
EXTENDS Naturals, Sequences

VARIABLES
  rev,     (* revision of the configuration in the database                *)
  owed,    (* notified changes that no snapshot answers yet                *)
  feed     (* snapshots published so far: [rev, whole], the revision each
              shows and whether it shows all of it                         *)

feedVars == <<rev, owed, feed>>

FeedInit == rev = 0 /\ owed = {} /\ feed = <<>>

(* A handler changes the configuration and will notify the change.         *)
Change ==
  /\ rev' = rev + 1
  /\ owed' = owed \cup {rev + 1}
  /\ UNCHANGED feed

(* The configuration changes without a notification.                       *)
ChangeSilently == rev' = rev + 1 /\ UNCHANGED <<owed, feed>>

(* The change is answered by a snapshot taken after it, whole or cut short. *)
Publish(c) ==
  /\ c \in owed
  /\ \E r \in c .. rev, w \in BOOLEAN :
       feed' = Append(feed, [rev |-> r, whole |-> w])
  /\ owed' = owed \ {c}
  /\ UNCHANGED rev

(* The database could not be read: the change goes unannounced.            *)
Abandon(c) ==
  /\ c \in owed
  /\ owed' = owed \ {c}
  /\ UNCHANGED <<rev, feed>>

FeedNext ==
  \/ Change
  \/ ChangeSilently
  \/ \E c \in owed : Publish(c) \/ Abandon(c)

FeedSpec == FeedInit /\ [][FeedNext]_feedVars
=============================================================================
