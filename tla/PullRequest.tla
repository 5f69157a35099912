----------------------------- MODULE PullRequest -----------------------------
(***************************************************************************)
(* The pull request of one execution's branch: the calls of the internal   *)
(* and the public endpoint of the integrations service (api.py) that open  *)
(* it through create_pull_request (service.py, github.py).  Delivery       *)
(* calls again when an activity is retried, and an attempt that has timed  *)
(* out may be calling still; CreatePullRequest of DeliveryExecution is     *)
(* what it sees of this.                                                   *)
(*                                                                         *)
(* A call is three requests to GitHub: look for a pull request, open one   *)
(* if there is none, and add a check run.  GitHub, external, refuses a     *)
(* second pull request between two branches only while one is open.        *)
(* A definition named Bug... is a variant of the one it precedes with a    *)
(* mistake in it; no specification uses it.                                *)
(***************************************************************************)
EXTENDS Naturals, Sequences

CONSTANTS Openers,      \* the calls: <<head_sha, number>>
          NoSha,        \* of a call without one, which asks for no check run
          Bases,        \* branches that are the default branch at some time
          NoBase,
          MaxTurns,     \* how often somebody closes, moves, withdraws or returns something
          MaxLost       \* how many requests to GitHub fail or are answered in vain

ASSUME PullRequestAssumption ==
    /\ NoBase \notin Bases
    /\ {MaxTurns, MaxLost} \subseteq Nat

VARIABLES
    remote,     \* at GitHub: the default branch, and may the installation use it?
    pulls,      \* at GitHub: the pull requests of the branch, by number
    checked,    \* at GitHub: the commits with a check run
    known,      \* the rows: default_branch, and is the installation ACTIVE and enabled?
    opener,     \* the calls
    overtaken,  \* history: was a pull request closed while a call was to open one?
    turns,
    lost

pullVars == <<remote, pulls, checked, known, opener, overtaken, turns, lost>>

\* The check runs that a call asks for.
Checks(c) == {c[1]} \ {NoSha}

Pull == [base : Bases, open : BOOLEAN]

PullRequestTypeOK ==
    /\ remote \in [base : Bases, granted : BOOLEAN]
    /\ pulls \in Seq(Pull)
    /\ checked \subseteq UNION {Checks(c) : c \in Openers}
    /\ known \in [base : Bases, active : BOOLEAN]
    /\ opener \in [Openers -> [at : {"new", "look", "post", "check", "answered", "failed"},
                               base : Bases \cup {NoBase}, pull : Nat]]
    /\ overtaken \in BOOLEAN
    /\ turns \in 0..MaxTurns
    /\ lost \in 0..MaxLost

PullRequestInit ==
    /\ \E b \in Bases : remote = [base |-> b, granted |-> TRUE]
                        /\ known = [base |-> b, active |-> TRUE]
    /\ pulls = <<>>
    /\ checked = {}
    /\ opener = [c \in Openers |-> [at |-> "new", base |-> NoBase, pull |-> 0]]
    /\ overtaken = FALSE
    /\ turns = 0
    /\ lost = 0

OpenerIs(c, step) == opener' = [opener EXCEPT ![c].at = step]

-----------------------------------------------------------------------------
(* A call *)

\* The repository and its installation are read once here; the code reads them
\* again with the same outcome or refuses.  access_status is not looked at.
BeginOpening(c) ==
    /\ opener[c].at = "new"
    /\ IF known.active
       THEN opener' = [opener EXCEPT ![c].at = "look", ![c].base = known.base]
       ELSE OpenerIs(c, "failed")
    /\ UNCHANGED <<remote, pulls, checked, known, overtaken, turns, lost>>

BugFound(base) == {n \in DOMAIN pulls : pulls[n].base = base /\ pulls[n].open}
\* state=all: a pull request that was closed is found as well.
Found(base) == {n \in DOMAIN pulls : pulls[n].base = base}

\* The newest one comes first, and per_page=1.
FindPullRequest(c) ==
    /\ opener[c].at = "look"
    /\ IF ~remote.granted THEN OpenerIs(c, "failed")
       ELSE IF Found(opener[c].base) = {} THEN OpenerIs(c, "post")
       ELSE \E n \in Found(opener[c].base) :
              /\ \A other \in Found(opener[c].base) : other <= n
              /\ opener' = [opener EXCEPT ![c].at = "check", ![c].pull = n]
    /\ UNCHANGED <<remote, pulls, checked, known, overtaken, turns, lost>>

\* GitHub's answer to a POST of /pulls (external).
Opens(base) ==
    /\ remote.granted
    /\ \A n \in DOMAIN pulls : pulls[n].base = base => ~pulls[n].open
    /\ pulls' = Append(pulls, [base |-> base, open |-> TRUE])

Refuses(base) ==
    /\ ~remote.granted \/ \E n \in DOMAIN pulls : pulls[n].base = base /\ pulls[n].open
    /\ UNCHANGED pulls

PostPullRequest(c) ==
    /\ opener[c].at = "post"
    /\ \/ /\ Opens(opener[c].base)
          /\ opener' = [opener EXCEPT ![c].at = "check", ![c].pull = Len(pulls) + 1]
       \/ Refuses(opener[c].base) /\ OpenerIs(c, "failed")
    /\ UNCHANGED <<remote, checked, known, overtaken, turns, lost>>

\* The check run is what tells a reviewer that the commit was verified; the answer
\* follows.  A repeated call adds another run with the same external_id.
CreateCheckRun(c) ==
    /\ opener[c].at = "check"
    /\ IF remote.granted \/ Checks(c) = {}
       THEN checked' = checked \cup Checks(c) /\ OpenerIs(c, "answered")
       ELSE OpenerIs(c, "failed") /\ UNCHANGED checked
    /\ UNCHANGED <<remote, pulls, known, overtaken, turns, lost>>

\* A request to GitHub fails or times out, or does its work and the answer is lost:
\* raise_for_status and httpx raise, and what GitHub has done is not undone.
OpeningFails(c) ==
    /\ opener[c].at \in {"look", "post", "check"}
    /\ lost < MaxLost
    /\ lost' = lost + 1
    /\ OpenerIs(c, "failed")
    /\ \/ UNCHANGED <<pulls, checked>>
       \/ opener[c].at = "post" /\ Opens(opener[c].base) /\ UNCHANGED checked
       \/ /\ opener[c].at = "check" /\ remote.granted
          /\ checked' = checked \cup Checks(c)
          /\ UNCHANGED pulls
    /\ UNCHANGED <<remote, known, overtaken, turns>>

-----------------------------------------------------------------------------
(* People at GitHub, and the rows that follow them *)

Turn == turns < MaxTurns /\ turns' = turns + 1

ClosePullRequest(n) ==
    /\ Turn
    /\ pulls[n].open
    /\ pulls' = [pulls EXCEPT ![n].open = FALSE]
    /\ overtaken' = (overtaken \/ \E c \in Openers : opener[c].at = "post"
                                                      /\ opener[c].base = pulls[n].base)
    /\ UNCHANGED <<remote, checked, known, opener, lost>>

ChangeDefaultBranch ==
    /\ Turn
    /\ \E b \in Bases \ {remote.base} : remote' = [remote EXCEPT !.base = b]
    /\ UNCHANGED <<pulls, checked, known, opener, overtaken, lost>>

WithdrawOrGrant ==
    /\ Turn
    /\ remote' = [remote EXCEPT !.granted = ~@]
    /\ UNCHANGED <<pulls, checked, known, opener, overtaken, lost>>

\* Reconciliation copies the default branch of a repository that is granted.
KnowDefaultBranch ==
    /\ remote.granted /\ known.base # remote.base
    /\ known' = [known EXCEPT !.base = remote.base]
    /\ UNCHANGED <<remote, pulls, checked, opener, overtaken, turns, lost>>

\* A webhook suspends or restores the installation, or the platform's
\* configuration is disabled; a withdrawn repository alone leaves it ACTIVE.
InstallationChanges ==
    /\ Turn
    /\ known' = [known EXCEPT !.active = ~@]
    /\ UNCHANGED <<remote, pulls, checked, opener, overtaken, lost>>

-----------------------------------------------------------------------------
Opening(c) ==
    \/ BeginOpening(c) \/ FindPullRequest(c) \/ PostPullRequest(c) \/ CreateCheckRun(c)
    \/ OpeningFails(c)

PullRequestNext ==
    \/ \E c \in Openers : Opening(c)
    \/ \E n \in DOMAIN pulls : ClosePullRequest(n)
    \/ ChangeDefaultBranch \/ WithdrawOrGrant \/ KnowDefaultBranch \/ InstallationChanges

PullRequestSpec == PullRequestInit /\ [][PullRequestNext]_pullVars

-----------------------------------------------------------------------------
(* Properties *)

\* Calls that overlap, are repeated or fail half-way share one pull request for
\* each default branch, although the idempotency key is not used to find it; unless
\* it is closed just when a call has looked for it in vain.  And a call is answered
\* only with a pull request to its base, after its commit has been checked.
PullRequestIsShared ==
    /\ ~overtaken => \A n, p \in DOMAIN pulls : pulls[n].base = pulls[p].base => n = p
    /\ \A c \in Openers :
         opener[c].at = "answered" =>
            pulls[opener[c].pull].base = opener[c].base /\ Checks(c) \subseteq checked
=============================================================================
