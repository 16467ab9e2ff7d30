------------------------ MODULE ProviderSuggestions ------------------------
(***************************************************************************)
(* Committable suggestions on the hosts other than GitHub: /improve hands  *)
(* its list to the provider, and hands over each suggestion alone when the *)
(* provider does not report success.                                       *)
(***************************************************************************)
EXTENDS Integers, Sequences, FiniteSets, Functions

CONSTANTS
  Offers,       \* the suggestions of one answer, a sequence of distinct values
  Providers,    \* the hosts looked at
  MaxAccidents  \* bound on calls that fail or whose answer is lost

\* good; without a proper range of lines; of a file that is not in the diff;
\* of a file whose contents were not loaded (the 50th and later ones).
Sorts == {"good", "range", "absent", "unloaded"}
Offered == {Offers[i] : i \in DOMAIN Offers}

ASSUME SuggestAssumption ==
  /\ Offers \in Seq(Offered)
  /\ \A i, j \in DOMAIN Offers : Offers[i] = Offers[j] => i = j
  /\ Providers \subseteq {"gitlab", "azure", "gitea", "codecommit", "bitbucket", "bitbucket_server", "gerrit"}
  /\ MaxAccidents \in Nat

VARIABLES
  provider, sort,
  due,        \* what the current call has still to deal with
  collected,  \* Bitbucket: what is collected and not posted yet
  alone,      \* suggestions still to be handed over alone
  handed,     \* the current call is for one suggestion
  published,  \* how often each suggestion appears on the pull request
  marked,     \* GitLab: the fingerprints in the store of inline comments
  copy,       \* Gerrit: the suggestions applied to the working copy
  patch,      \* Gerrit: what the uploaded patch of each suggestion holds
  summary,    \* Gerrit: the suggestions the final comment will list
  troubled,   \* suggestions a call of which went wrong
  stage, accidents

board == <<published, marked, copy, patch, summary, troubled, accidents>>
suggestVars == <<provider, sort, due, collected, alone, handed, published, marked, copy, patch, summary,
                 troubled, stage, accidents>>

Bitbuckets == {"bitbucket", "bitbucket_server"}

-----------------------------------------------------------------------------
(* Deliberate faults: each replaces the operator it is named after.        *)

FaultReset(c, ok) == c

-----------------------------------------------------------------------------
(* One call of publish_code_suggestions.                                   *)

\* A call of the host's interface: done, refused, or done and not answered.
Outcomes == IF accidents < MaxAccidents THEN {"ok", "failed", "lost"} ELSE {"ok"}
Seen(s, o) == published' = [published EXCEPT ![s] = @ + (IF o = "failed" THEN 0 ELSE 1)]
Noticed(s, o) == /\ troubled' = troubled \cup (IF o = "ok" THEN {} ELSE {s})
                 /\ accidents' = accidents + (IF o = "ok" THEN 0 ELSE 1)

\* The caller: a falsy answer has each suggestion handed over alone.
Returned(ok) ==
  /\ due' = <<>> /\ collected' = <<>> /\ stage' = "between"
  /\ alone' = IF ok \/ handed THEN alone ELSE Offers

\* An exception leaves push_inline_code_suggestions; the rest is never tried.
Escaped == stage' = "raised" /\ due' = <<>> /\ collected' = <<>> /\ alone' = <<>>

First == Head(due)
NextOne == due' = Tail(due) /\ UNCHANGED <<collected, alone, stage>>
Passed == NextOne /\ UNCHANGED board

\* GitLab and Azure DevOps catch what a suggestion raises, and go on.
Caught == NextOne

\* GitLab: an inline discussion, or a general note in its place.
GitlabPosts ==
  \E o, n \in Outcomes :
    /\ IF o = "ok" THEN NextOne ELSE Caught
    /\ marked' = marked \cup (IF "ok" \in {o, n} THEN {First} ELSE {})
    /\ published' = [published EXCEPT ![First] = @ + Cardinality({x \in {"post", "note"} :
         IF x = "post" THEN o # "failed" ELSE o # "ok" /\ n # "failed"})]
    /\ o = "ok" => n = "ok"
    /\ Noticed(First, o)
    /\ UNCHANGED <<copy, patch, summary>>
ToGitlab ==
  /\ provider = "gitlab"
  /\ IF sort[First] \in {"absent", "unloaded"} \/ First \in marked THEN Passed ELSE GitlabPosts

AzurePosts ==
  \E o \in Outcomes :
    /\ IF o = "ok" THEN NextOne ELSE Caught
    /\ Seen(First, o) /\ Noticed(First, o)
    /\ UNCHANGED <<marked, copy, patch, summary>>
ToAzure ==
  /\ provider = "azure"
  /\ IF sort[First] = "range" THEN Passed ELSE AzurePosts

\* Gitea: an empty response is logged, an exception is not caught.
ToGitea ==
  /\ provider = "gitea"
  /\ \E o \in Outcomes, empty \in BOOLEAN :
       /\ empty => o = "failed"
       /\ IF o = "ok" \/ empty THEN NextOne ELSE Escaped
       /\ Seen(First, o) /\ Noticed(First, o)
       /\ UNCHANGED <<marked, copy, patch, summary>>

ToCodeCommit ==
  /\ provider = "codecommit"
  /\ \E o \in Outcomes :
       /\ IF o = "ok" THEN NextOne ELSE Escaped
       /\ Seen(First, o) /\ Noticed(First, o)
       /\ UNCHANGED <<marked, copy, patch, summary>>

\* Both Bitbucket providers collect first ...
ToBitbucket ==
  /\ provider \in Bitbuckets
  /\ due' = Tail(due)
  /\ collected' = IF sort[First] = "range" THEN collected ELSE Append(collected, First)
  /\ UNCHANGED <<alone, stage, board>>

\* Bitbucket Cloud does not look at the status it is answered with.
Unread(o) == provider = "bitbucket" /\ o = "failed"

\* ... and post one by one, up to the first exception.
BitbucketPosts ==
  /\ provider \in Bitbuckets /\ stage = "call" /\ due = <<>> /\ collected # <<>>
  /\ LET s == Head(collected)
     IN \E o \in Outcomes, heard \in BOOLEAN :
          /\ heard \/ Unread(o)
          /\ Seen(s, o) /\ Noticed(s, o)
          /\ IF o = "ok" \/ ~heard
             THEN collected' = Tail(collected) /\ UNCHANGED <<due, alone, stage>>
             ELSE Returned(FALSE)
  /\ UNCHANGED <<provider, sort, handed, marked, copy, patch, summary>>

\* Gerrit: a suggestion written over the working copy, and all that is changed
\* there uploaded.
Applied == copy \cup {First}
Uploaded == [patch EXCEPT ![First] = Applied]

\* Gerrit: reset_local_changes, when the patch has been uploaded.
Reset(c, ok) == IF ok THEN {} ELSE c

\* Gerrit: apply the suggestion to the working copy, upload the difference and
\* undo it; any of the three may fail.
ToGerrit ==
  /\ provider = "gerrit"
  /\ \E o \in Outcomes \ {"lost"}, applied \in BOOLEAN :
       /\ o = "ok" => applied
       /\ IF o = "ok" THEN NextOne ELSE Escaped
       /\ copy' = Reset(IF applied THEN Applied ELSE copy, o = "ok")
       /\ patch' = IF o = "ok" THEN Uploaded ELSE patch
       /\ summary' = IF o = "ok" THEN summary \cup {First} ELSE summary
       /\ Noticed(First, o)
       /\ UNCHANGED <<published, marked>>

\* The comment that lists the patches.
GerritComment ==
  /\ provider = "gerrit" /\ stage = "call" /\ due = <<>> /\ summary # {}
  /\ \E o \in Outcomes :
       /\ published' = [s \in Offered |-> published[s] + (IF s \in summary /\ o # "failed" THEN 1 ELSE 0)]
       /\ troubled' = troubled \cup (IF o = "ok" THEN {} ELSE summary)
       /\ accidents' = accidents + (IF o = "ok" THEN 0 ELSE 1)
       /\ IF o = "ok" THEN Returned(TRUE) ELSE Escaped
  /\ summary' = {}
  /\ UNCHANGED <<provider, sort, handed, marked, copy, patch>>

Publish ==
  /\ stage = "call" /\ due # <<>>
  /\ ToGitlab \/ ToAzure \/ ToGitea \/ ToCodeCommit \/ ToBitbucket \/ ToGerrit
  /\ UNCHANGED <<provider, sort, handed>>

Return ==
  /\ stage = "call" /\ due = <<>> /\ collected = <<>> /\ summary = {}
  /\ Returned(provider \notin {"gitea", "gerrit"})
  /\ UNCHANGED <<provider, sort, handed, board>>

\* push_inline_code_suggestions, after the call for the whole list.
HandOver ==
  /\ stage = "between" /\ alone # <<>>
  /\ due' = <<Head(alone)>> /\ alone' = Tail(alone) /\ handed' = TRUE /\ stage' = "call"
  /\ UNCHANGED <<provider, sort, collected, board>>

Finish == /\ stage = "between" /\ alone = <<>> /\ stage' = "done"
          /\ UNCHANGED <<provider, sort, due, collected, alone, handed, board>>

-----------------------------------------------------------------------------
SuggestInit ==
  /\ provider \in Providers /\ sort \in [Offered -> Sorts]
  /\ due = Offers /\ collected = <<>> /\ alone = <<>> /\ handed = FALSE
  /\ published = [s \in Offered |-> 0] /\ marked = {} /\ troubled = {}
  /\ copy = {} /\ patch = [s \in Offered |-> {}] /\ summary = {}
  /\ stage = "call" /\ accidents = 0

SuggestNext == Publish \/ BitbucketPosts \/ GerritComment \/ Return \/ HandOver \/ Finish

SuggestSpec == SuggestInit /\ [][SuggestNext]_suggestVars

-----------------------------------------------------------------------------
(* Properties.                                                             *)

\* No suggestion appears twice on a pull request unless a call to the host went
\* wrong: a provider that publishes one by one says so to its caller
\* (codecommit_provider.py:213).
RepeatedForCause == \A s \in Offered : published[s] > 1 => accidents > 0

\* The same, on every host but Gitea, whose provider says nothing.
OnceUnlessTrouble == provider # "gitea" => RepeatedForCause

\* One suggestion that cannot be published does not take the others with it
\* (gitlab_provider.py:729): when GitLab, Azure DevOps or a Bitbucket has been
\* through, all that the host did not refuse are there.
RestPublished ==
  stage \in {"done", "raised"} /\ provider \in {"gitlab", "azure"} \cup Bitbuckets =>
    /\ stage = "done"
    /\ \A s \in Offered \ troubled : sort[s] = "good" => published[s] > 0

\* A patch uploaded to Gerrit holds its own suggestion and no other.
PatchIsOwn == \A s \in Offered : patch[s] \subseteq {s}

\* Suggestions stand alone: none is repeated for another's sake, none takes the
\* others with it, and none is uploaded with what another has left in the files.
StandAlone == OnceUnlessTrouble /\ RestPublished /\ PatchIsOwn

-----------------------------------------------------------------------------
(* What makes them hold.                                                   *)

\* The values the variables take; a call for one suggestion has no other.
SuggestTypeOK ==
  /\ provider \in Providers /\ sort \in [Offered -> Sorts]
  /\ due \in Seq(Offered) /\ collected \in Seq(Offered) /\ alone \in Seq(Offered) /\ handed \in BOOLEAN
  /\ published \in [Offered -> Nat] /\ patch \in [Offered -> SUBSET Offered]
  /\ marked \subseteq Offered /\ copy \subseteq Offered /\ summary \subseteq Offered /\ troubled \subseteq Offered
  /\ stage \in {"call", "between", "done", "raised"} /\ accidents \in 0 .. MaxAccidents
  /\ handed => Len(due) + Len(collected) =< 1

\* Until a call goes wrong nothing is handed over twice, and what waits to be
\* published has not been.
Waiting == Range(due) \cup Range(collected) \cup summary
InOrder ==
  /\ alone = <<>> /\ ~handed
  /\ \A i, j \in DOMAIN due : due[i] = due[j] => i = j
  /\ \A i, j \in DOMAIN collected : collected[i] = collected[j] => i = j
  /\ Range(due) \cap Range(collected) = {} /\ Range(due) \cap summary = {}
  /\ \A s \in Offered : published[s] =< 1 /\ (s \in Waiting => published[s] = 0)
  /\ provider = "gerrit" /\ stage = "call" => Offered \subseteq Range(due) \cup summary
Orderly == accidents = 0 /\ provider # "gitea" => InOrder

\* On the hosts that go on, a good suggestion is there, has had its trouble, or
\* is yet to be dealt with.
GoingOn ==
  provider \in {"gitlab", "azure"} \cup Bitbuckets =>
    /\ stage # "raised"
    /\ \A s \in Offered \ troubled :
         /\ s \in marked => published[s] > 0
         /\ sort[s] = "good" => published[s] > 0 \/ s \in Range(due) \cup Range(collected) \cup Range(alone)

\* What only one of the hosts has, and the working copy between two calls.
HostsOwn ==
  /\ provider \notin Bitbuckets => collected = <<>>
  /\ provider # "gerrit" => summary = {}
  /\ provider # "gitlab" => marked = {}
  /\ stage = "raised" \/ copy = {}
  /\ stage \in {"between", "done"} => due = <<>> /\ collected = <<>> /\ summary = {}
  /\ stage = "done" => alone = <<>>

SuggestInv == SuggestTypeOK /\ Orderly /\ GoingOn /\ HostsOwn /\ PatchIsOwn
=============================================================================
