--------------------------- MODULE Administration ---------------------------
(***************************************************************************)
(* What administrators do: they authenticate (AdminAuth), review the       *)
(* profile texts of an account (ContentModeration), and page through the   *)
(* lists (KeysetPaging; the lists of the applications are paged the same   *)
(* way).  The three share no state but None, which stands for NULL.        *)
(***************************************************************************)
EXTENDS AdminAuth

CONSTANTS
    Texts, Flagged, NoText, Questions, MaxAnswers, Cases, Admins, MaxVersion,
    Ids, MaxTime, TicksPerMilli, Limit, Offsets, MaxChanges

VARIABLES
    owner, question, text, case, open, seen,
    list, rows, walk, cursor, shown, stable, changes

contentVars == <<owner, question, text, case, open, seen>>
pagingVars == <<list, rows, walk, cursor, shown, stable, changes>>

\* The account is that of the author of the texts.
Content == INSTANCE ContentModeration WITH account <- owner
Paging == INSTANCE KeysetPaging

\* ContentModeration: nobody overrides a decision or a text that was not on the screen.
NoBlindOverride == Content!NoBlindOverride

\* ContentModeration: texts and cases stay together, and a status comes from the
\* rules or from who has seen the text.
TextsConsistent == Content!TextsConsistent

\* KeysetPaging: a walk shows each row that stays in place once.
ListsConsistent == Paging!ListsConsistent

=============================================================================
