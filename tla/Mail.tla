-------------------------------- MODULE Mail --------------------------------
(***************************************************************************)
(* Mail between players: moo/sdk/mail.py and the verbs @mail, @send,       *)
(* @reply, @forward and check_inbox.  A command names a letter by its      *)
(* position in the mailbox, newest first; other players' letters arrive    *)
(* between two queries of one command and while an editor is open.         *)
(***************************************************************************)
EXTENDS Integers, Sequences, FiniteSets, SequencesExt

CONSTANTS
    Person,      \* the players
    Writes,      \* the pairs <<from, to>> of the letters and forwards people write
    MaxLetters   \* bound on the letters there are

ASSUME MailAssumption == Writes \in SUBSET (Person \X Person) /\ MaxLetters \in Nat

NoDraft == [kind |-> "none", at |-> 0, to |-> "nobody", quotes |-> 0]

VARIABLES
    letters,   \* in the order sent: [from, to, read, deleted, kind, quotes]
    drafts,    \* drafts[p]: what the editor of p was opened with
    marking    \* marking[p]: the position a command of p is about to mark read, or 0

mailVars == <<letters, drafts, marking>>

\* The position `at' is that of the command; the callback is not told.
Draft == [kind : {"send", "reply", "forward"}, at : 0..MaxLetters, to : Person, quotes : 0..MaxLetters]

MailTypeOK ==
    /\ letters \in Seq([from : Person, to : Person, read : BOOLEAN, deleted : BOOLEAN,
                        kind : {"send", "reply", "forward"}, quotes : 0..MaxLetters])
    /\ Len(letters) <= MaxLetters
    /\ drafts \in [Person -> Draft \cup {NoDraft}]
    /\ marking \in [Person -> 0..MaxLetters]

MailInit ==
    /\ letters = <<>>
    /\ drafts = [p \in Person |-> NoDraft]
    /\ marking = [p \in Person |-> 0]

-----------------------------------------------------------------------------
\* The mailbox of p, or what p has deleted of it: indices of letters.
Rows(p, deleted) ==
    Reverse(SelectSeq([i \in DOMAIN letters |-> i],
                      LAMBDA i : letters[i].to = p /\ letters[i].deleted = deleted))

_mailbox_rows(p) == Rows(p, FALSE)

unread(p) == SelectSeq(_mailbox_rows(p), LAMBDA i : ~ letters[i].read)

\* A player has one command running, and none while an editor is open.
Idle(p) == marking[p] = 0 /\ drafts[p] = NoDraft

\* send_message
send_message(from, to, kind, quotes) ==
    /\ Len(letters) < MaxLetters
    /\ letters' = Append(letters, [from |-> from, to |-> to, read |-> FALSE, deleted |-> FALSE,
                                   kind |-> kind, quotes |-> quotes])

-----------------------------------------------------------------------------
\* @mail <n>: get_message, and later mark_read asks for the position again.
GetMessage(p) ==
    /\ Idle(p)
    /\ \E n \in DOMAIN _mailbox_rows(p) : marking' = [marking EXCEPT ![p] = n]
    /\ UNCHANGED <<letters, drafts>>

\* check_inbox shows the first unread message and marks the first one.
CheckInbox(p) ==
    /\ Idle(p)
    /\ unread(p) # <<>>
    /\ marking' = [marking EXCEPT ![p] = 1]
    /\ UNCHANGED <<letters, drafts>>

MarkRead(p) ==
    /\ marking[p] # 0
    /\ letters' = IF marking[p] \in DOMAIN _mailbox_rows(p)
                  THEN [letters EXCEPT ![_mailbox_rows(p)[marking[p]]].read = TRUE] ELSE letters
    /\ marking' = [marking EXCEPT ![p] = 0]
    /\ UNCHANGED drafts

\* @mail delete <n>, @mail undelete <n>
DeleteMessage(p) ==
    /\ Idle(p)
    /\ \E n \in DOMAIN _mailbox_rows(p) :
          letters' = [letters EXCEPT ![_mailbox_rows(p)[n]].deleted = TRUE]
    /\ UNCHANGED <<drafts, marking>>

UndeleteMessage(p) ==
    /\ Idle(p)
    /\ \E n \in DOMAIN Rows(p, TRUE) :
          letters' = [letters EXCEPT ![Rows(p, TRUE)[n]].deleted = FALSE]
    /\ UNCHANGED <<drafts, marking>>

-----------------------------------------------------------------------------
\* What @send, @reply and @forward find when they run.
Wanted(p) ==
    LET rows == _mailbox_rows(p)
        others == {w[2] : w \in {w \in Writes : w[1] = p}}
    IN {[kind |-> "send", at |-> 0, to |-> q, quotes |-> 0] : q \in others}
       \cup {[kind |-> "reply", at |-> n, to |-> letters[rows[n]].from, quotes |-> rows[n]] :
                n \in DOMAIN rows}
       \cup {[kind |-> "forward", at |-> n, to |-> q, quotes |-> rows[n]] :
                n \in DOMAIN rows, q \in others}

\* With an inline text the letter goes at once, else an editor opens.
WriteInline(p) ==
    /\ Idle(p)
    /\ \E d \in Wanted(p) : send_message(p, d.to, d.kind, d.quotes)
    /\ UNCHANGED <<drafts, marking>>

OpenEditor(p) ==
    /\ Idle(p)
    /\ \E d \in Wanted(p) : drafts' = [drafts EXCEPT ![p] = d]
    /\ UNCHANGED <<letters, marking>>

\* Mutant of Addressee: the callback looks up the position again.
AddresseeAtPosition(p) ==
    LET d == drafts[p]
    IN IF d.kind = "reply" /\ d.at \in DOMAIN _mailbox_rows(p)
       THEN letters[_mailbox_rows(p)[d.at]].from ELSE d.to

\* The callback is given the author's or the recipient's id.
Addressee(p) == drafts[p].to

\* at_send_callback, at_reply_callback, at_forward_callback
SaveEditor(p) ==
    /\ drafts[p] # NoDraft
    /\ send_message(p, Addressee(p), drafts[p].kind, drafts[p].quotes)
    /\ drafts' = [drafts EXCEPT ![p] = NoDraft]
    /\ UNCHANGED marking

\* Nothing was written, or the editor was left without saving.
LeaveEditor(p) ==
    /\ drafts[p] # NoDraft
    /\ drafts' = [drafts EXCEPT ![p] = NoDraft]
    /\ UNCHANGED <<letters, marking>>

MailNext ==
    \E p \in Person :
        \/ GetMessage(p) \/ CheckInbox(p) \/ MarkRead(p) \/ DeleteMessage(p) \/ UndeleteMessage(p)
        \/ WriteInline(p) \/ OpenEditor(p) \/ SaveEditor(p) \/ LeaveEditor(p)

-----------------------------------------------------------------------------
\* A reply goes to the author of the letter it quotes, and what a letter
\* quotes was addressed to its sender, although positions changed while the
\* editor was open (at_reply.py:30, 64, 80; sdk/mail.py:110).
RepliesGoBack ==
    \A i \in DOMAIN letters :
        letters[i].quotes # 0 =>
            LET quoted == letters[letters[i].quotes]
            IN /\ quoted.to = letters[i].from
               /\ letters[i].kind = "reply" => letters[i].to = quoted.from

=============================================================================
