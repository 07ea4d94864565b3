------------------------------ MODULE Avatars ------------------------------
(***************************************************************************)
(* The avatar of a user: GetUploadURL and ConfirmUpload of                 *)
(* internal/transport/rest/profile_photo_handler.go, ChangeProfile of      *)
(* profile_user_handler.go.                                                *)
(*                                                                         *)
(* profile_avatars keeps a row for every photo the user confirmed and      *)
(* marks the current one; profiles repeats its address.  ConfirmUpload     *)
(* keeps the two together in a transaction: it clears the marks, inserts a *)
(* marked row and updates the profile.  The transaction is READ COMMITTED, *)
(* its clearing sees the rows committed when the statement starts, and no  *)
(* constraint allows only one mark a user.                                 *)
(*                                                                         *)
(* One user; each request confirms one photo.                              *)
(***************************************************************************)
EXTENDS Naturals

CONSTANTS
  Requests,   \* calls of GetUploadURL, each followed by ConfirmUpload
  NoPhoto,    \* photo_url of a profile without a photo
  MaxSecond   \* bound: seconds the clock of the producer shows

VARIABLES
  second,    \* the clock, which names the objects
  migrated,  \* profiles has the column weight, which no migration creates
  profile,   \* the user has a row in profiles
  photo,     \* photo_url of that row
  key,       \* key[r]: the object that r was given an address for
  stage,     \* stage[r]: how far r has come
  seen,      \* seen[r]: the rows its clearing found
  wrote,     \* wrote[r]: its transaction holds the row of the profile
  row        \* row[r]: the committed row that r inserted

vars == <<second, migrated, profile, photo, key, stage, seen, wrote, row>>

Stages == {"new", "given", "clearing", "cleared", "inserted", "updated",
           "answered"}

Init ==
  /\ second = 1
  /\ migrated \in BOOLEAN
  /\ profile = FALSE
  /\ photo = NoPhoto
  /\ key = [r \in Requests |-> NoPhoto]
  /\ stage = [r \in Requests |-> "new"]
  /\ seen = [r \in Requests |-> {}]
  /\ wrote = [r \in Requests |-> FALSE]
  /\ row = [r \in Requests |-> "none"]

Advance(r, from, to) ==
  stage[r] = from /\ stage' = [stage EXCEPT ![r] = to]

Rows == {r \in Requests : row[r] # "none"}

\* The rows a transaction has changed are locked until it ends.
Locked(q) ==
  IF stage[q] \in {"cleared", "inserted", "updated"} THEN seen[q] ELSE {}
ProfileFree == \A q \in Requests : ~wrote[q]

Second ==
  /\ second < MaxSecond
  /\ second' = second + 1
  /\ UNCHANGED <<migrated, profile, photo, key, stage, seen, wrote, row>>

(* The insert fails in every call without the column.  It leaves photo_url *)
(* as it is if there is a row.                                             *)
ChangeProfile ==
  /\ migrated
  /\ ProfileFree
  /\ profile' = TRUE
  /\ UNCHANGED <<second, migrated, photo, key, stage, seen, wrote, row>>

GetUploadURL(r) ==
  /\ Advance(r, "new", "given")
  /\ key' = [key EXCEPT ![r] = second]
  /\ UNCHANGED <<second, migrated, profile, photo, seen, wrote, row>>

-----------------------------------------------------------------------------
(* The transaction of ConfirmUpload.                                       *)

(* The update of the old rows starts: its snapshot is taken.               *)
Begin(r) ==
  /\ Advance(r, "given", "clearing")
  /\ seen' = [seen EXCEPT ![r] = Rows]
  /\ UNCHANGED <<second, migrated, profile, photo, key, wrote, row>>

(* It ends when no other transaction has a lock on a row of the snapshot.  *)
Clear(r) ==
  /\ Advance(r, "clearing", "cleared")
  /\ \A q \in Requests : Locked(q) \cap seen[r] = {}
  /\ UNCHANGED <<second, migrated, profile, photo, key, seen, wrote, row>>

Insert(r) ==
  /\ Advance(r, "cleared", "inserted")
  /\ UNCHANGED <<second, migrated, profile, photo, key, seen, wrote, row>>

(* Without a profile it changes no row, which is not an error.             *)
UpdateProfile(r) ==
  /\ Advance(r, "inserted", "updated")
  /\ profile => ProfileFree
  /\ wrote' = [wrote EXCEPT ![r] = profile]
  /\ UNCHANGED <<second, migrated, profile, photo, key, seen, row>>

\* Mutant of Marked: the marks are cleared after the insert.
MarkedFirst(r) ==
  [q \in Requests |-> IF q \in seen[r] \cup {r} THEN "old" ELSE row[q]]

Marked(r) ==
  [q \in Requests |-> IF q = r THEN "current"
                      ELSE IF q \in seen[r] THEN "old"
                      ELSE row[q]]

Commit(r) ==
  /\ Advance(r, "updated", "answered")
  /\ row' = Marked(r)
  /\ photo' = IF wrote[r] THEN key[r] ELSE photo
  /\ wrote' = [wrote EXCEPT ![r] = FALSE]
  /\ UNCHANGED <<second, migrated, profile, key, seen>>

\* Mutant of Rollback: a transaction that failed is left open.
RollbackOpen(r) ==
  /\ stage[r] \in {"clearing", "cleared", "inserted", "updated"}
  /\ stage' = [stage EXCEPT ![r] = "answered"]
  /\ UNCHANGED <<second, migrated, profile, photo, key, seen, wrote, row>>

(* A statement or the commit fails, or the process ends: nothing was done. *)
(* The answer of a process that lives is still 200.                        *)
Rollback(r) ==
  /\ stage[r] \in {"clearing", "cleared", "inserted", "updated"}
  /\ stage' = [stage EXCEPT ![r] = "answered"]
  /\ wrote' = [wrote EXCEPT ![r] = FALSE]
  /\ UNCHANGED <<second, migrated, profile, photo, key, seen, row>>

ConfirmUpload(r) ==
  \/ Begin(r)
  \/ Clear(r)
  \/ Insert(r)
  \/ UpdateProfile(r)
  \/ Commit(r)
  \/ Rollback(r)

Next ==
  \/ Second
  \/ ChangeProfile
  \/ \E r \in Requests : GetUploadURL(r) \/ ConfirmUpload(r)

Spec == Init /\ [][Next]_vars

-----------------------------------------------------------------------------
(* The types of the variables; locks are held by open transactions only    *)
(* (profile_photo_handler.go lines 114-131).                               *)
TypeOK ==
  /\ second \in Nat
  /\ migrated \in BOOLEAN
  /\ profile \in BOOLEAN
  /\ photo \in Nat \cup {NoPhoto}
  /\ key \in [Requests -> Nat \cup {NoPhoto}]
  /\ stage \in [Requests -> Stages]
  /\ seen \in [Requests -> SUBSET Requests]
  /\ wrote \in [Requests -> BOOLEAN]
  /\ row \in [Requests -> {"none", "old", "current"}]
  /\ \A r \in Requests : wrote[r] => stage[r] = "updated"

Current(r) == row[r] = "current"

(* The address in the profile is that of a row marked as the current one,  *)
(* and two rows are marked only if their transactions overlapped, neither  *)
(* having seen the row of the other: what lines 115 and 129 of             *)
(* profile_photo_handler.go are for.                                       *)
AvatarsAgree ==
  /\ photo # NoPhoto => \E r \in Requests : Current(r) /\ key[r] = photo
  /\ \A r, q \in Requests :
       Current(r) /\ Current(q) /\ r # q => r \notin seen[q]
=============================================================================
