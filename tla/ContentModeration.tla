-------------------------- MODULE ContentModeration -------------------------
(***************************************************************************)
(* The texts of one profile and the moderation of them: the bio and the    *)
(* answers to profile questions, their automatic analysis, and the         *)
(* decisions of administrators, who read a case first and decide later.    *)
(*                                                                         *)
(* The photo and the decisions about it are in PhotoLifecycle.  The text   *)
(* of a case is not copied into it: the decision is about whatever the row *)
(* holds when it is shown.                                                 *)
(***************************************************************************)
EXTENDS Integers, FiniteSets

CONSTANTS
    Texts,
    Flagged,    \* the texts for which analyze gives a reason code
    NoText,     \* null or the empty text
    Questions,
    MaxAnswers, \* 3 in replaceForUser
    Cases,      \* identifiers of content_moderation_case, each used once
    Admins,
    None,
    MaxVersion  \* bound on the versions of a case

Bio == "bio"
Sources == {Bio} \cup Questions

VARIABLES
    account,   \* open, closed or erased
    question,  \* the questions of the catalogue
    text,      \* the bio, and the answer to a question
    case,      \* the cases
    open,      \* what an administrator has on the screen
    seen       \* history: the text the administrator of the last decision had seen

vars == <<account, question, text, case, open, seen>>

NoCase == [source |-> None, status |-> "none", version |-> 0]
Closed == [case |-> None, version |-> 0, text |-> NoText]

CasesOf(s) == {c \in Cases : case[c].source = s}

\* The unique indexes on the source of a case.
TypeOK ==
    /\ account \in {"open", "closed", "erased"} /\ question \subseteq Questions
    /\ text \in [Sources -> Texts \cup {NoText}]
    /\ \A c \in Cases : /\ case[c].source \in Sources \cup {None} /\ case[c].version \in 0..MaxVersion
                        /\ case[c].status \in {"none", "pending", "approved", "rejected", "gone"}
    /\ open \in [Admins -> [case: Cases \cup {None}, version: 0..MaxVersion, text: Texts \cup {NoText}]]
    /\ seen \in [Cases -> Texts \cup {NoText}]
    /\ \A s \in Sources : Cardinality(CasesOf(s)) <= 1

Init ==
    /\ account = "open" /\ question \in SUBSET Questions /\ text = [s \in Sources |-> NoText]
    /\ case = [c \in Cases |-> NoCase] /\ open = [a \in Admins |-> Closed] /\ seen = [c \in Cases |-> NoText]

\* analyze: the rules approve a text, or leave it to an administrator.
Analyze(t) == IF t \in Flagged THEN "pending" ELSE "approved"

Gone(c) == [c EXCEPT !.source = None, !.status = "gone"]
Unused == {c \in Cases : case[c].status = "none"}

-----------------------------------------------------------------------------
(* The owner of the profile.                                               *)

\* Mutant: a bio that changes gets one more case.
UpsertBioInserts(t) ==
    /\ account = "open" /\ text' = [text EXCEPT ![Bio] = t] /\ t # text[Bio]
    /\ \E n \in Unused : case' = [case EXCEPT ![n] = [source |-> Bio, status |-> Analyze(t), version |-> 1]]
    /\ UNCHANGED <<account, question, open, seen>>

\* upsertProfile: a bio that changes is analysed, and its case starts again with
\* the next version; without a bio there is no case.
UpsertBio(t) ==
    /\ account = "open" /\ text' = [text EXCEPT ![Bio] = t]
    /\ \/ t = NoText /\ case' = [c \in Cases |-> IF c \in CasesOf(Bio) THEN Gone(case[c]) ELSE case[c]] /\ UNCHANGED seen
       \/ t # NoText /\ t = text[Bio] /\ UNCHANGED <<case, seen>>
       \/ /\ t # NoText /\ t # text[Bio] /\ CasesOf(Bio) # {} /\ \A c \in CasesOf(Bio) : case[c].version < MaxVersion
          /\ case' = [c \in Cases |-> IF c \in CasesOf(Bio)
                                      THEN [case[c] EXCEPT !.status = Analyze(t), !.version = @ + 1] ELSE case[c]]
          /\ seen' = [c \in Cases |-> IF c \in CasesOf(Bio) THEN NoText ELSE seen[c]]
       \/ /\ t # NoText /\ t # text[Bio] /\ CasesOf(Bio) = {}
          /\ \E n \in Unused : case' = [case EXCEPT ![n] = [source |-> Bio, status |-> Analyze(t), version |-> 1]]
          /\ UNCHANGED seen
    /\ UNCHANGED <<account, question, open>>

\* Mutant: the rows of the answers are updated in place.
ReplaceInPlace(answers) ==
    LET asked == DOMAIN answers IN
    /\ account = "open" /\ asked \subseteq question /\ Cardinality(asked) <= MaxAnswers
    /\ text' = [s \in Sources |-> IF s \in asked THEN answers[s] ELSE IF s = Bio THEN text[s] ELSE NoText]
    /\ \E id \in [asked -> Cases] :
         /\ \A p, q \in asked : p # q => id[p] # id[q]
         /\ \A q \in asked : id[q] \in IF CasesOf(q) = {} THEN Unused ELSE CasesOf(q)
         /\ case' = [c \in Cases |->
              IF \E q \in asked : id[q] = c
              THEN [source |-> CHOOSE q \in asked : id[q] = c, status |-> Analyze(answers[CHOOSE q \in asked : id[q] = c]), version |-> 1]
              ELSE IF case[c].source \in Questions THEN Gone(case[c]) ELSE case[c]]
    /\ UNCHANGED <<account, question, open, seen>>

\* replaceForUser: all answers are deleted, their cases with them, and the new ones
\* are inserted with cases of their own.
ReplaceForUser(answers) ==
    LET asked == DOMAIN answers IN
    /\ account = "open" /\ asked \subseteq question /\ Cardinality(asked) <= MaxAnswers
    /\ text' = [s \in Sources |-> IF s \in asked THEN answers[s] ELSE IF s = Bio THEN text[s] ELSE NoText]
    /\ \E id \in [asked -> Unused] :
         /\ \A p, q \in asked : p # q => id[p] # id[q]
         /\ case' = [c \in Cases |->
              IF \E q \in asked : id[q] = c
              THEN LET q == CHOOSE q \in asked : id[q] = c IN
                   [source |-> q, status |-> Analyze(answers[q]), version |-> 1]
              ELSE IF case[c].source \in Questions THEN Gone(case[c]) ELSE case[c]]
    /\ UNCHANGED <<account, question, open, seen>>

-----------------------------------------------------------------------------
(* Administrators.                                                         *)

CreateQuestion(q) ==
    /\ q \notin question /\ question' = question \cup {q}
    /\ UNCHANGED <<account, text, case, open, seen>>

\* Mutant: the answers to a question stay when it is deleted, without their case.
DeleteQuestionOnly(q) ==
    /\ q \in question /\ question' = question \ {q}
    /\ case' = [c \in Cases |-> IF c \in CasesOf(q) THEN Gone(case[c]) ELSE case[c]]
    /\ UNCHANGED <<account, text, open, seen>>

\* delete, and what the foreign keys delete with the question.
DeleteQuestion(q) ==
    /\ q \in question /\ question' = question \ {q}
    /\ text' = [text EXCEPT ![q] = NoText]
    /\ case' = [c \in Cases |-> IF c \in CasesOf(q) THEN Gone(case[c]) ELSE case[c]]
    /\ UNCHANGED <<account, open, seen>>

\* detail: the case and its text, in one statement.
Detail(a, c) ==
    /\ case[c].source # None
    /\ open' = [open EXCEPT ![a] = [case |-> c, version |-> case[c].version, text |-> text[case[c].source]]]
    /\ UNCHANGED <<account, question, text, case, seen>>

\* Mutant: the version is not compared.
ReviewUnversioned(a, decision) ==
    LET c == open[a].case IN
    /\ account = "open" /\ c # None /\ case[c].source # None /\ case[c].version < MaxVersion
    /\ case' = [case EXCEPT ![c].status = decision, ![c].version = @ + 1]
    /\ seen' = [seen EXCEPT ![c] = open[a].text] /\ open' = [open EXCEPT ![a] = Closed]
    /\ UNCHANGED <<account, question, text>>

\* review: under the lock of the case, which still has the version that was read.
\* The trigger fct_require_live_account refuses it for an account that is closed.
Review(a, decision) ==
    LET c == open[a].case IN
    /\ account = "open" /\ c # None /\ case[c].source # None /\ case[c].version = open[a].version
    /\ case[c].version < MaxVersion
    /\ case' = [case EXCEPT ![c].status = decision, ![c].version = @ + 1]
    /\ seen' = [seen EXCEPT ![c] = open[a].text] /\ open' = [open EXCEPT ![a] = Closed]
    /\ UNCHANGED <<account, question, text>>

\* The decision is refused as stale, or not sent.
Leave(a) ==
    /\ open[a] # Closed /\ open' = [open EXCEPT ![a] = Closed]
    /\ UNCHANGED <<account, question, text, case, seen>>

-----------------------------------------------------------------------------

CloseAccount == account = "open" /\ account' = "closed" /\ UNCHANGED <<question, text, case, open, seen>>

\* The profile is deleted, and with it what refers to it.
Anonymize ==
    /\ account = "closed" /\ account' = "erased" /\ text' = [s \in Sources |-> NoText]
    /\ case' = [c \in Cases |-> IF case[c].source # None THEN Gone(case[c]) ELSE case[c]]
    /\ UNCHANGED <<question, open, seen>>

Next ==
    \/ \E t \in Texts \cup {NoText} : UpsertBio(t)
    \/ \E asked \in SUBSET Questions : \E answers \in [asked -> Texts] : ReplaceForUser(answers)
    \/ \E q \in Questions : CreateQuestion(q) \/ DeleteQuestion(q)
    \/ \E a \in Admins : \/ \E c \in Cases : Detail(a, c)
                         \/ \E d \in {"approved", "rejected"} : Review(a, d)
                         \/ Leave(a)
    \/ CloseAccount \/ Anonymize

Spec == Init /\ [][Next]_vars

-----------------------------------------------------------------------------
(* Properties.                                                             *)

\* review: the status of a text comes from the rules for this text, or from an
\* administrator who had this text on the screen, whatever the owner changed and
\* another administrator decided in between.
StatusEarned ==
    \A c \in Cases : case[c].source # None =>
      \/ seen[c] = text[case[c].source]
      \/ case[c].status = Analyze(text[case[c].source])

\* upsertProfile and replaceForUser: every text has a case, without which an
\* answer would be shown to nobody, and there is no case without a text.
EveryTextHasACase == \A s \in Sources : text[s] # NoText <=> CasesOf(s) # {}

\* A decision about a text is replaced only by an administrator who has seen it,
\* or by a new text.
NoBlindOverride ==
    [][\A a \in Admins : LET c == open[a].case IN
         c # None /\ open'[a] = Closed /\ case[c].source # None /\ case'[c].version > case[c].version =>
           open[a].version = case[c].version /\ open[a].text = text[case[c].source]]_vars
\* Texts and cases stay together, and a status is about the text it stands by.
TextsConsistent == TypeOK /\ StatusEarned /\ EveryTextHasACase

=============================================================================
