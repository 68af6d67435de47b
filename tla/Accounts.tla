------------------------------ MODULE Accounts ------------------------------
(***************************************************************************)
(* Registration and API keys (handlers/auth.go, handlers/workspace.go,     *)
(* store/users.go, store/workspaces.go, store/apikeys.go).  A user and a   *)
(* workspace row are named after the registration that inserted them.      *)
(***************************************************************************)
EXTENDS Integers, FiniteSets

CONSTANTS
    Registrations,  \* POST /auth/register
    EmailOf,        \* the e-mail address, in lower case
    NameOf,         \* the workspace name as a slug
    LongNames,      \* names whose slug is longer than its column
    Suffixes,       \* what the random part of a slug may be
    Keys,           \* API keys that may be created
    MaxErrors,      \* bound on failed statements
    NoOne

ASSUME AccountsAssumption == NoOne \notin Registrations /\ MaxErrors \in Nat

Emails == {EmailOf[r] : r \in Registrations}

VARIABLES
    users,    \* the users table: e-mail, unique, to id
    spaces,   \* the workspaces table: the owners, one workspace each
    slugs,    \* its slugs, unique
    step,     \* the step of each registration, or its answer
    errors,   \* failed statements so far
    keys,     \* the api_keys table: hash, unique, to workspace
    issued,   \* history: the workspace each key was handed out to
    revoker,  \* history: the workspace whose request deleted it
    acted     \* history: keys that authenticated a request, and as whom

accountVars == <<users, spaces, slugs, step, errors, keys, issued, revoker, acted>>

AccountsInit ==
    /\ users = [e \in Emails |-> NoOne] /\ spaces = {} /\ slugs = {}
    /\ step = [r \in Registrations |-> "lookup"] /\ errors = 0
    /\ keys = [k \in Keys |-> NoOne] /\ issued = [k \in Keys |-> NoOne]
    /\ revoker = [k \in Keys |-> NoOne] /\ acted = {}

ToStep(r, s) == step' = [step EXCEPT ![r] = s]
(* The database or the process fails.                                       *)
Errs == errors < MaxErrors /\ errors' = errors + 1
keyVars   == <<keys, issued, revoker, acted>>
spaceVars == <<spaces, slugs>>

-----------------------------------------------------------------------------
(* Register: three statements without a transaction.                        *)
GetUserByEmail(e) == users[e]

LookUpEmail(r) ==
    /\ step[r] = "lookup"
    /\ \/ /\ ToStep(r, IF GetUserByEmail(EmailOf[r]) = NoOne THEN "user" ELSE "conflict")
          /\ UNCHANGED errors
       \/ ToStep(r, "failed") /\ Errs
    /\ UNCHANGED <<users, spaceVars, keyVars>>

InsertUser(r) == users' = [users EXCEPT ![EmailOf[r]] = r]

(* Mutant of CreateUser: no unique constraint, the later row is found.      *)
CreateUserTwice(r) ==
    /\ step[r] = "user"
    /\ InsertUser(r) /\ ToStep(r, "workspace")
    /\ UNCHANGED <<spaceVars, errors, keyVars>>

(* The unique constraint refuses the e-mail of a registration that was      *)
(* faster; a failed insert may have been carried out.                       *)
CreateUser(r) ==
    LET taken == users[EmailOf[r]] # NoOne IN
    /\ step[r] = "user"
    /\ \/ ~taken /\ InsertUser(r) /\ ToStep(r, "workspace") /\ UNCHANGED errors
       \/ taken /\ ToStep(r, "failed") /\ UNCHANGED <<users, errors>>
       \/ /\ Errs /\ ToStep(r, "failed")
          /\ (~taken /\ InsertUser(r)) \/ UNCHANGED users
    /\ UNCHANGED <<spaceVars, keyVars>>

(* The name and a random suffix: names and suffixes of two registrations    *)
(* may be the same.                                                         *)
uniqueSlug(r, suffix) == <<NameOf[r], suffix>>

InsertWorkspace(r, slug) == spaces' = spaces \cup {r} /\ slugs' = slugs \cup {slug}

(* The user stays when the workspace is refused: its slug is taken, or too  *)
(* long for the column, since neither the name nor the slug is cut.         *)
CreateWorkspace(r, suffix) ==
    LET slug    == uniqueSlug(r, suffix)
        refused == slug \in slugs \/ NameOf[r] \in LongNames IN
    /\ step[r] = "workspace"
    /\ \/ ~refused /\ InsertWorkspace(r, slug) /\ ToStep(r, "created") /\ UNCHANGED errors
       \/ refused /\ ToStep(r, "failed") /\ UNCHANGED <<spaceVars, errors>>
       \/ /\ Errs /\ ToStep(r, "failed")
          /\ (~refused /\ InsertWorkspace(r, slug)) \/ UNCHANGED spaceVars
    /\ UNCHANGED <<users, keyVars>>

(* Login, with the right password; the token will name the workspace.       *)
GetWorkspaceByOwner(u) == {s \in spaces : s = u}
CanLogin(e) == GetUserByEmail(e) # NoOne /\ GetWorkspaceByOwner(GetUserByEmail(e)) # {}

-----------------------------------------------------------------------------
(* API keys.  A request carries the workspace of its token or key.          *)
InsertKey(w, k) == keys' = [keys EXCEPT ![k] = w]

CreateAPIKey(w, k) ==
    /\ w \in spaces /\ issued[k] = NoOne
    /\ InsertKey(w, k)
    /\ issued' = [issued EXCEPT ![k] = w]
    /\ UNCHANGED <<users, spaceVars, step, errors, revoker, acted>>

(* Mutant of Deletable: by the id of the key alone.                         *)
DeletableByAll(w, k) == keys[k] # NoOne
Deletable(w, k) == keys[k] = w

DeleteAPIKey(w, k) ==
    /\ w \in spaces /\ Deletable(w, k)
    /\ keys' = [keys EXCEPT ![k] = NoOne]
    /\ revoker' = [revoker EXCEPT ![k] = w]
    /\ UNCHANGED <<users, spaceVars, step, errors, issued, acted>>

(* A request presents a key and is served as its workspace, also when the   *)
(* key is revoked before the request ends.                                  *)
Resolved(k) == {w \in Registrations : keys[k] = w}

APIKeyOrJWT(k) ==
    /\ Resolved(k) # {} /\ acted' = acted \cup {<<k, w>> : w \in Resolved(k)}
    /\ UNCHANGED <<users, spaceVars, step, errors, keys, issued, revoker>>

AccountsNext ==
    \/ \E r \in Registrations : \/ LookUpEmail(r) \/ CreateUser(r)
                               \/ \E x \in Suffixes : CreateWorkspace(r, x)
    \/ \E w \in Registrations, k \in Keys : CreateAPIKey(w, k) \/ DeleteAPIKey(w, k)
    \/ \E k \in Keys : APIKeyOrJWT(k)

AccountsSpec == AccountsInit /\ [][AccountsNext]_accountVars

-----------------------------------------------------------------------------
(* Of registrations with one e-mail at most one is answered with a token,   *)
(* and that token names the user and the workspace of its own request, even *)
(* when others looked the e-mail up at the same time.                       *)
TokenIsOwn ==
    \A r \in Registrations : step[r] = "created" => users[EmailOf[r]] = r /\ CanLogin(EmailOf[r])

(* A key that was handed out works, for its workspace and no other, until   *)
(* that workspace itself revokes it.                                        *)
KeysLastUntilRevoked ==
    /\ \A k \in Keys : issued[k] # NoOne =>
        (keys[k] = issued[k] /\ revoker[k] = NoOne) \/ (keys[k] = NoOne /\ revoker[k] = issued[k])
    /\ \A use \in acted : use[2] = issued[use[1]]
=============================================================================
