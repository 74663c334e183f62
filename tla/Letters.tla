------------------------------ MODULE Letters ------------------------------
(***************************************************************************)
(* The letters of one collection and of one type (demand letter, legal     *)
(* notice): drafted, edited, sent to the buyer.  Every handler looks at    *)
(* the status first and writes after it has rendered a PDF, so two of them *)
(* overlap; the writes look at the status again, the mail does not.        *)
(*                                                                         *)
(* A content stands for the PDF with its parameters.                       *)
(***************************************************************************)
EXTENDS Integers

CONSTANTS
  Letters,      \* rows of escalation_documents
  Clerks,       \* requests being served, by the clerk who made them
  Contents,
  FirstContent, \* deadlineDays: 14, no notes
  MaxEdits      \* bound on updateDraftParams

ASSUME LettersAssumption ==
  /\ FirstContent \in Contents
  /\ MaxEdits \in Nat

VARIABLES
  letter,       \* the rows
  latest,       \* the row created last, if any: ORDER BY created_at DESC LIMIT 1
  clerk,        \* what each request has read
  mails,        \* escalation-document-sent jobs of each letter
  released,     \* the content and the clerk of each letter when it was sent
  edits

letterVars == <<letter, latest, clerk, mails, released, edits>>

NoLetter == [status |-> "none"]
AtRest == [op |-> "rest"]

Signed == [content : Contents, by : Clerks]
Letter ==
  {NoLetter}
    \cup [status : {"draft"}, content : Contents]
    \cup [status : {"sent"}, content : Contents, by : Clerks]

LettersTypeOK ==
  /\ letter \in [Letters -> Letter]
  /\ latest \in SUBSET Letters
  /\ clerk \in [Clerks ->
       {AtRest, [op |-> "draft"]}
         \cup [op : {"update"}, id : Letters, content : Contents]
         \cup [op : {"send", "mail"}, id : Letters]]
  /\ mails \in [Letters -> Nat]
  /\ released \in [Letters -> {NoLetter} \cup Signed]
  /\ edits \in 0..MaxEdits

LettersInit ==
  /\ letter = [d \in Letters |-> NoLetter]
  /\ latest = {}
  /\ clerk = [c \in Clerks |-> AtRest]
  /\ mails = [d \in Letters |-> 0]
  /\ released = [d \in Letters |-> NoLetter]
  /\ edits = 0

-----------------------------------------------------------------------------

Turns(c, r) == clerk' = [clerk EXCEPT ![c] = r]
Begins(c, r) == clerk[c] = AtRest /\ Turns(c, r)

\* generateDraftDocument: the last letter of the type is not a draft.
GenerateDraftDocument(c) ==
  /\ \A d \in latest : letter[d].status # "draft"
  /\ Begins(c, [op |-> "draft"])
  /\ UNCHANGED <<letter, latest, mails, released, edits>>

\* No index keeps a second draft out.
PersistDraftDocument(c, d) ==
  /\ clerk[c].op = "draft"
  /\ letter[d] = NoLetter
  /\ letter' = [letter EXCEPT ![d] = [status |-> "draft", content |-> FirstContent]]
  /\ latest' = {d}
  /\ Turns(c, AtRest)
  /\ UNCHANGED <<mails, released, edits>>

\* updateDraftParams: merged and rendered before the transaction.
UpdateDraftParams(c, d, v) ==
  /\ edits < MaxEdits
  /\ letter[d].status = "draft"
  /\ Begins(c, [op |-> "update", id |-> d, content |-> v])
  /\ edits' = edits + 1
  /\ UNCHANGED <<letter, latest, mails, released>>

\* Mutant: UPDATE ... WHERE id = $4.
UpdateById(c) ==
  /\ clerk[c].op = "update"
  /\ letter' = [letter EXCEPT ![clerk[c].id].content = clerk[c].content]
  /\ Turns(c, AtRest)
  /\ UNCHANGED <<latest, mails, released, edits>>

\* UPDATE ... WHERE id = $4 AND status = 'draft'; no row is no error.
PersistDraftUpdate(c) ==
  /\ clerk[c].op = "update"
  /\ letter' = IF letter[clerk[c].id].status = "draft"
               THEN [letter EXCEPT ![clerk[c].id].content = clerk[c].content]
               ELSE letter
  /\ Turns(c, AtRest)
  /\ UNCHANGED <<latest, mails, released, edits>>

FinalizeAndSend(c, d) ==
  /\ letter[d].status = "draft"
  /\ Begins(c, [op |-> "send", id |-> d])
  /\ UNCHANGED <<letter, latest, mails, released, edits>>

\* Mutant: UPDATE ... WHERE id = $3.
FinalizeById(c) ==
  LET d == clerk[c].id IN
  /\ clerk[c].op = "send"
  /\ letter' = [letter EXCEPT ![d] = [status |-> "sent", content |-> @.content, by |-> c]]
  /\ released' = IF released[d] = NoLetter
                 THEN [released EXCEPT ![d] = [content |-> letter[d].content, by |-> c]]
                 ELSE released
  /\ Turns(c, [op |-> "mail", id |-> d])
  /\ UNCHANGED <<latest, mails, edits>>

\* A second sender finds no draft, and goes on all the same.
PersistFinalization(c) ==
  LET d == clerk[c].id IN
  /\ clerk[c].op = "send"
  /\ IF letter[d].status = "draft"
     THEN /\ letter' = [letter EXCEPT ![d] =
                          [status |-> "sent", content |-> @.content, by |-> c]]
          /\ released' = [released EXCEPT ![d] = [content |-> letter[d].content, by |-> c]]
     ELSE UNCHANGED <<letter, released>>
  /\ Turns(c, [op |-> "mail", id |-> d])
  /\ UNCHANGED <<latest, mails, edits>>

QueueDocumentNotification(c) ==
  /\ clerk[c].op = "mail"
  /\ mails' = [mails EXCEPT ![clerk[c].id] = @ + 1]
  /\ Turns(c, AtRest)
  /\ UNCHANGED <<letter, latest, released, edits>>

\* A failed query or enqueue, or the end of the server.
GiveUp(c) ==
  /\ clerk[c] # AtRest
  /\ Turns(c, AtRest)
  /\ UNCHANGED <<letter, latest, mails, released, edits>>

LettersNext ==
  \E c \in Clerks :
    \/ GenerateDraftDocument(c)
    \/ \E d \in Letters :
         \/ PersistDraftDocument(c, d)
         \/ \E v \in Contents : UpdateDraftParams(c, d, v)
         \/ FinalizeAndSend(c, d)
    \/ PersistDraftUpdate(c)
    \/ PersistFinalization(c)
    \/ QueueDocumentNotification(c)
    \/ GiveUp(c)

-----------------------------------------------------------------------------
\* persistDraftUpdate, persistFinalization: what the buyer is told of is a
\* letter that stays as it was when it was released, in its words and under
\* the name of who released it, whoever edits or sends it at the same time.
LettersFinal ==
  \A d \in Letters :
    /\ mails[d] > 0 => released[d] # NoLetter
    /\ released[d] # NoLetter =>
         letter[d] = [status |-> "sent", content |-> released[d].content,
                      by |-> released[d].by]
=============================================================================
