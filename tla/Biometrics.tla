------------------------------- MODULE Biometrics ------------------------------
(***************************************************************************)
(* Fingerprint enrolments and face encodings, and the requests that unlock *)
(* a vault after a biometric check on the phone (verify) or on the server  *)
(* (verify-face): they go on as the unlock request of VaultAccess, in the  *)
(* same slot.  biometric_enrollments has no unique constraint on the user, *)
(* face_encodings has.  Timestamps, images and encodings are left out: a   *)
(* fingerprint enrolled again only gets a new date.                        *)
(***************************************************************************)
EXTENDS VaultAccess, FiniteSets

CONSTANT Enrollers  \* the users who enrol

ASSUME EnrollersAssumption == Enrollers \subseteq Users /\ IsFiniteSet(Reqs)

VARIABLES
  prints,  \* how many rows of biometric_enrollments a user has
  face,    \* whether the user has a row in face_encodings
  bio,     \* the local state of the requests for biometrics
  raced    \* history: the requests during which another one changed the user's face

bioVars == <<prints, face, bio, raced>>

BioFrame == [at : {"idle", "insert_print", "insert_face", "update_face", "delete_face",
                   "unlock", "failed"},
             user : Users \cup {None}, gone : BOOLEAN]

Rest == [at |-> "idle", user |-> None, gone |-> FALSE]

BioTypeOK ==
  /\ TypeOK
  /\ prints \in [Enrollers -> Nat]
  /\ face \in [Enrollers -> BOOLEAN]
  /\ bio \in [Reqs -> BioFrame]
  /\ raced \subseteq Reqs

BioInit ==
  /\ Init
  /\ prints = [u \in Enrollers |-> 0]
  /\ face = [u \in Enrollers |-> FALSE]
  /\ bio = [r \in Reqs |-> Rest]
  /\ raced = {}

\* Request r is at `at', for user u, and others are as they were.
At(r, at, u) == bio' = [bio EXCEPT ![r] = [at |-> at, user |-> u, gone |-> FALSE]]

Answer(r) == bio' = [bio EXCEPT ![r] = Rest]

BioFail(r) == bio' = [bio EXCEPT ![r].at = "failed"]

Starts(r) == req[r].at = "idle" /\ bio[r].at = "idle"

\* Mutants of the operators below, for testing the properties: an enrolment is
\* inserted without a look, a face too, a stale row makes the request try again.
EnrollUnseen(r, u) ==
  /\ Starts(r)
  /\ At(r, "insert_print", u)
  /\ UNCHANGED <<prints, face>>

EnrollFaceUnseen(r, u) ==
  /\ Starts(r)
  /\ At(r, "insert_face", u)
  /\ UNCHANGED <<prints, face>>

RetryStale(r) ==
  /\ bio[r].at = "update_face"
  /\ IF bio[r].gone THEN bio' = [bio EXCEPT ![r].at = "retry"] ELSE Answer(r)
  /\ UNCHANGED <<prints, face>>

\* EnrollBiometrics: SELECT the user's enrolment, which is none yet.
Enroll(r, u) ==
  /\ Starts(r)
  /\ prints[u] = 0
  /\ At(r, "insert_print", u)
  /\ UNCHANGED <<prints, face>>

InsertPrint(r) ==
  /\ bio[r].at = "insert_print"
  /\ prints' = [prints EXCEPT ![bio[r].user] = @ + 1]
  /\ Answer(r)
  /\ UNCHANGED face

\* EnrollFace: SELECT the user's encoding, then store the new one.
EnrollFace(r, u) ==
  /\ Starts(r)
  /\ At(r, IF face[u] THEN "update_face" ELSE "insert_face", u)
  /\ UNCHANGED <<prints, face>>

\* The unique constraint refuses a second encoding with an error nobody catches.
InsertFace(r) ==
  LET u == bio[r].user IN
  /\ bio[r].at = "insert_face"
  /\ IF face[u] THEN BioFail(r) /\ UNCHANGED face
                ELSE Answer(r) /\ face' = [face EXCEPT ![u] = TRUE]
  /\ UNCHANGED prints

\* UPDATE by primary key: a row that has gone raises StaleDataError.
UpdateFace(r) ==
  /\ bio[r].at = "update_face"
  /\ IF bio[r].gone THEN BioFail(r) ELSE Answer(r)
  /\ UNCHANGED <<prints, face>>

\* DeleteFace: SELECT the row; if there is none the answer is deleted=False.
DeleteFace(r, u) ==
  /\ Starts(r)
  /\ face[u]
  /\ At(r, "delete_face", u)
  /\ UNCHANGED <<prints, face>>

\* Request p is about to write the row of user u's face.
Outdated(p, u) == bio[p].user = u /\ bio[p].at \in {"update_face", "delete_face"}

\* DELETE by primary key; a row that has gone is only warned about.
DeleteFaceRow(r) ==
  LET u == bio[r].user IN
  /\ bio[r].at = "delete_face"
  /\ IF bio[r].gone
       THEN Answer(r) /\ UNCHANGED face
       ELSE /\ face' = [face EXCEPT ![u] = FALSE]
            /\ bio' = [p \in Reqs |-> IF p = r THEN Rest
                                      ELSE IF Outdated(p, u) THEN [bio[p] EXCEPT !.gone = TRUE]
                                      ELSE bio[p]]
  /\ UNCHANGED prints

\* verify_biometric takes the phone's word (the token names the user) and VerifyFace
\* compares the image with the stored encoding; with a vault they go on to unlock it.
Verify(r, u) ==
  /\ Starts(r)
  /\ At(r, "unlock", u)
  /\ UNCHANGED <<prints, face>>

VerifyFace(r, u) == face[u] /\ Verify(r, u)

BioFailed(r) ==
  /\ bio[r].at = "failed"
  /\ Answer(r)
  /\ UNCHANGED <<prints, face>>

\* The history of a step on enrolments.
BioRemember ==
  raced' = {r \in Reqs : /\ bio'[r].at # "idle"
                         /\ \/ r \in raced
                            \/ /\ bio'[r].at = bio[r].at /\ bio[r].user \in Enrollers
                               /\ face'[bio[r].user] # face[bio[r].user]}

\* SendUnlockCommand, with its own checks; no vault: 404.
Unlock(r) ==
  /\ bio[r].at = "unlock"
  /\ Answer(r)
  /\ IF vault.id = 0 THEN UNCHANGED vars
                     ELSE Begin(r, "unlock", bio[r].user) /\ Remember
  /\ UNCHANGED <<prints, face>>

BioNext ==
  \/ /\ Next
     /\ \A r \in Reqs : bio[r].at # "idle" => req'[r] = req[r]
     /\ UNCHANGED bioVars
  \/ /\ \E r \in Reqs :
          \/ \E u \in Enrollers : \/ Enroll(r, u) \/ EnrollFace(r, u) \/ DeleteFace(r, u)
                                  \/ Verify(r, u) \/ VerifyFace(r, u)
          \/ InsertPrint(r)
          \/ InsertFace(r)
          \/ UpdateFace(r)
          \/ DeleteFaceRow(r)
          \/ BioFailed(r)
     /\ BioRemember
     /\ UNCHANGED vars
  \/ (\E r \in Reqs : Unlock(r)) /\ BioRemember

BioSpec == BioInit /\ [][BioNext]_<<vars, bioVars>>

-----------------------------------------------------------------------------
\* Without a unique constraint concurrent enrolments all insert, but never more
\* than there were requests at once: a row that is there stops the next ones.
EnrolmentsBounded ==
  \A u \in Enrollers :
    prints[u] + Cardinality({r \in Reqs : bio[r].at = "insert_print" /\ bio[r].user = u})
      <= Cardinality(Reqs)

\* Enrolling a face fails with an internal error only in a race with another
\* request that enrols or deletes the same user's face.
FaceFailsOnConflict == \A r \in Reqs : bio[r].at = "failed" => r \in raced
=============================================================================
