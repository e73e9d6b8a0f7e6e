--------------------------- MODULE ProposalDialog ---------------------------
(***************************************************************************)
(* The wallet's "Create proposal" dialog (qt/proposaldialog.cpp), opened   *)
(* by ProposalList::on_createButton_clicked.  The dialog first prepares a  *)
(* proposal (pays the collateral fee transaction committing to the         *)
(* proposal's hash), then polls the chain once a second until it deems the *)
(* fee deep enough, then offers "Finish", which submits the proposal to    *)
(* the local ledger and marks it seen.                                     *)
(*                                                                         *)
(* The proposal's identity is the tuple CBudgetProposal::GetHash hashes:   *)
(* here the form [start, end, url] (the name is abstracted: its length     *)
(* check is correct and independent of the rest).  A URL is modelled by    *)
(* the set of scheme prefixes it contains.  The chain is the tip height    *)
(* and, for each fee transaction, the height of the block that mined it.   *)
(***************************************************************************)
EXTENDS Naturals, Sequences, FiniteSets

CONSTANTS
    FeeConfirmations,   \* Params().Budget_Fee_Confirmations()
    MaxHeight,          \* bound on the chain tip
    MaxDialogs,         \* bound on how often the user opens the dialog
    Starts,             \* block-start values the user may type (>= 1)
    Ends,               \* block-end values the user may type (>= 1)
    SporkModes          \* subset of {"none", "valid", "wrong"}: -sporkkey

ASSUME FeeConfirmations \in Nat \ {0}
ASSUME Starts \cup Ends \subseteq Nat \ {0}
ASSUME SporkModes \subseteq {"none", "valid", "wrong"}

Schemes == {"http://", "https://"}

\* An empty line edit: text().toInt() is 0 and text().isEmpty() holds.
Empty == 0
BlankForm == [start |-> Empty, end |-> Empty, url |-> {}]
Forms == [start : Starts \cup {Empty}, end : Ends \cup {Empty}, url : SUBSET Schemes]

VARIABLES
    height,     \* chainActive.Tip()->nHeight
    spork,      \* whether -sporkkey is set, and to the network's key or not
    locked,     \* pwalletMain->IsLocked()
    sessions,   \* dialogs opened so far
    dialog,     \* "open" while exec() runs, else "closed"
    mode,       \* ProposalDialog::mode
    form,       \* contents of name/url/blockStart/blockEnd edits
    editable,   \* the edits are enabled
    acceptOn,   \* acceptButton enabled
    cancelOn,   \* cancelButton enabled
    timerOn,    \* timer running
    counter,    \* ProposalDialog::counter
    hashTx,     \* index in fees of the tx shown in hashEdit; 0: none or empty wtx
    fees,       \* collateral txs committed: [p: form, s: session, mined: height or 0]
    proposals,  \* forms in budget.mapProposals (added by this wallet)
    seen        \* forms in budget.mapSeenMasternodeBudgetProposals

vars == <<height, spork, locked, sessions, dialog, mode, form, editable,
          acceptOn, cancelOn, timerOn, counter, hashTx, fees, proposals, seen>>
ui == <<mode, form, editable, acceptOn, cancelOn, timerOn, counter, hashTx>>

TypeOK ==
    /\ height \in 0..MaxHeight
    /\ spork \in SporkModes
    /\ locked \in BOOLEAN
    /\ sessions \in 0..MaxDialogs
    /\ dialog \in {"open", "closed"}
    /\ mode \in {"prepare", "submit"}
    /\ form \in Forms
    /\ {editable, acceptOn, cancelOn, timerOn} \subseteq BOOLEAN
    /\ counter \in 0..MaxHeight + 1
    /\ hashTx \in 0..Len(fees)
    /\ fees \in Seq([p : Forms, s : 1..MaxDialogs, mined : 0..MaxHeight])
    /\ proposals \subseteq Forms /\ seen \subseteq Forms

-----------------------------------------------------------------------------
(* Chain queries and the code's checks.                                    *)

\* IsBudgetCollateralValid's count: the block's depth, 0 while unmined.
Confirmations(i) == IF fees[i].mined = 0 THEN 0 ELSE height - fees[i].mined + 1

\* IsBudgetCollateralValid(hash, broadcast.GetHash(), ...): the tx exists,
\* its OP_RETURN commits to this proposal, and it is deep enough.
CollateralValid(i, f) ==
    /\ i \in 1..Len(fees)
    /\ fees[i].p = f
    /\ Confirmations(i) >= FeeConfirmations

\* CBudgetProposalBroadcast::Sign() succeeds only with the network's key.
Signs == spork = "valid"

\* The URL test of validateProposal: the error is set only when the URL
\* contains both "http://" and "https://".
UrlAccepted(u) == ~(Schemes \subseteq u)

\* ProposalDialog::validateProposal (the node is taken as synced).
Validates(f) ==
    /\ UrlAccepted(f.url)
    /\ f.start # Empty /\ f.start >= height
    /\ f.end # Empty /\ f.end >= f.start

-----------------------------------------------------------------------------
(* The user and the dialog.                                                *)

\* ProposalList::on_createButton_clicked constructs the dialog in
\* PrepareProposal mode and runs it modally.
OpenDialog ==
    /\ dialog = "closed" /\ sessions < MaxDialogs
    /\ dialog' = "open" /\ sessions' = sessions + 1
    /\ mode' = "prepare" /\ form' = BlankForm /\ editable' = TRUE
    /\ acceptOn' = TRUE /\ cancelOn' = TRUE /\ timerOn' = FALSE
    /\ counter' = 0 /\ hashTx' = 0
    /\ UNCHANGED <<height, spork, locked, fees, proposals, seen>>

\* Typing into the enabled edits (the int validators admit values >= 1).
Edit ==
    /\ dialog = "open" /\ editable
    /\ \E f \in Forms : form' = f
    /\ UNCHANGED <<height, spork, locked, sessions, dialog, mode, editable,
                   acceptOn, cancelOn, timerOn, counter, hashTx, fees, proposals, seen>>

\* walletpassphrase / walletlock, at any time.
ToggleLock ==
    /\ locked' = ~locked
    /\ UNCHANGED <<height, spork, sessions, dialog, ui, fees, proposals, seen>>

\* The tail of prepareProposal: the view switches to submit mode.
PrepareDone(tx) ==
    /\ editable' = FALSE /\ cancelOn' = FALSE /\ acceptOn' = FALSE
    /\ hashTx' = tx /\ mode' = "submit"
    /\ timerOn' = TRUE /\ counter' = height + 1
    /\ UNCHANGED form

\* Mutant: hashEdit shows the transaction after the one just committed.
PrepareTxIndexOffByOne ==
    \/ /\ locked
       /\ UNCHANGED <<ui, fees>>
    \/ /\ ~locked /\ Signs
       /\ PrepareDone(0) /\ UNCHANGED fees
    \/ /\ ~locked /\ ~Signs
       /\ UNCHANGED <<ui, fees>>
    \/ /\ ~locked /\ ~Signs
       /\ fees' = Append(fees, [p |-> form, s |-> sessions, mined |-> 0])
       /\ PrepareDone(Len(fees) + 2)

\* ProposalDialog::prepareProposal.  Without the spork key it builds and
\* commits a fee transaction; either step may fail (balance, relay).
Prepare ==
    \/ /\ locked
       /\ UNCHANGED <<ui, fees>>
    \/ /\ ~locked /\ Signs
       /\ PrepareDone(0) /\ UNCHANGED fees
    \/ /\ ~locked /\ ~Signs
       /\ UNCHANGED <<ui, fees>>
    \/ /\ ~locked /\ ~Signs
       /\ fees' = Append(fees, [p |-> form, s |-> sessions, mined |-> 0])
       /\ PrepareDone(Len(fees) + 1)

\* ProposalDialog::submitProposal.  AddProposal fails when the hash is
\* already in mapProposals.  Errors are shown only without a signature;
\* otherwise the broadcast is entered as seen and the dialog accepted.
Submit ==
    LET collOK == Signs \/ CollateralValid(hashTx, form)
        added  == collOK /\ form \notin proposals
    IN  \/ /\ ~Signs /\ ~added
           /\ UNCHANGED <<dialog, ui, proposals, seen>>
        \/ /\ Signs \/ added
           /\ proposals' = IF added THEN proposals \cup {form} ELSE proposals
           /\ seen' = seen \cup {form}
           /\ dialog' = "closed" /\ timerOn' = FALSE
           /\ UNCHANGED <<mode, form, editable, acceptOn, cancelOn, counter, hashTx>>

\* on_acceptButton_clicked: validate, then prepare or submit by mode.
ClickAccept ==
    /\ dialog = "open" /\ acceptOn
    /\ \/ /\ ~Validates(form)
          /\ UNCHANGED <<dialog, ui, fees, proposals, seen>>
       \/ /\ Validates(form) /\ mode = "prepare"
          /\ Prepare /\ UNCHANGED <<dialog, proposals, seen>>
       \/ /\ Validates(form) /\ mode = "submit"
          /\ Submit /\ UNCHANGED fees
    /\ UNCHANGED <<height, spork, locked, sessions>>

\* checkProposalTX, the timer's slot.  Its other branches only relabel.
TimerTick ==
    /\ dialog = "open" /\ timerOn /\ mode = "submit"
    /\ (spork # "none" \/ (height + 1) - counter > FeeConfirmations)
    /\ acceptOn' = TRUE /\ timerOn' = FALSE
    /\ UNCHANGED <<height, spork, locked, sessions, dialog, mode, form,
                   editable, cancelOn, counter, hashTx, fees, proposals, seen>>

\* on_cancelButton_clicked: reject().
Cancel ==
    /\ dialog = "open" /\ cancelOn
    /\ dialog' = "closed" /\ timerOn' = FALSE
    /\ UNCHANGED <<height, spork, locked, sessions, mode, form, editable,
                   acceptOn, cancelOn, counter, hashTx, fees, proposals, seen>>

\* Escape or the title bar's close button reject the dialog whatever the
\* buttons' state; the destructor stops the timer.
Dismiss ==
    /\ dialog = "open"
    /\ dialog' = "closed" /\ timerOn' = FALSE
    /\ UNCHANGED <<height, spork, locked, sessions, mode, form, editable,
                   acceptOn, cancelOn, counter, hashTx, fees, proposals, seen>>

\* A block arrives and mines any subset of the pending fee transactions.
NewBlock ==
    /\ height < MaxHeight
    /\ height' = height + 1
    /\ \E mine \in SUBSET {i \in 1..Len(fees) : fees[i].mined = 0} :
          fees' = [i \in 1..Len(fees) |->
                     IF i \in mine THEN [fees[i] EXCEPT !.mined = height + 1]
                                   ELSE fees[i]]
    /\ UNCHANGED <<spork, locked, sessions, dialog, ui, proposals, seen>>

Init ==
    /\ height = 0 /\ spork \in SporkModes /\ locked \in BOOLEAN
    /\ sessions = 0 /\ dialog = "closed"
    /\ mode = "prepare" /\ form = BlankForm /\ editable = TRUE
    /\ acceptOn = TRUE /\ cancelOn = TRUE /\ timerOn = FALSE
    /\ counter = 0 /\ hashTx = 0
    /\ fees = <<>> /\ proposals = {} /\ seen = {}

Next ==
    \/ OpenDialog \/ Edit \/ ToggleLock \/ ClickAccept \/ TimerTick
    \/ Cancel \/ Dismiss \/ NewBlock

Spec == Init /\ [][Next]_vars

=============================================================================
