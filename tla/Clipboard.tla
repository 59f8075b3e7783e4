----------------------------- MODULE Clipboard -----------------------------
(***************************************************************************)
(* The copy buttons of the documentation pages (docs/javascripts/          *)
(* clipboard.js): a copy is written asynchronously by the browser, or,     *)
(* when that is not available or refused, copied synchronously through a   *)
(* temporary <input>.  Scripts run to completion; the browser does not wait*)
(* for them.  A text counts as whole while it has its line breaks and its  *)
(* full length.                                                            *)
(***************************************************************************)
EXTENDS Naturals, FiniteSets, Sequences

CONSTANTS Texts,      \* texts of the code blocks on the page
          Fits,       \* those of one line and at most 99999 characters
          MaxCopies   \* bound: how often the reader presses a button

ASSUME ClipboardAssumption == Fits \subseteq Texts /\ MaxCopies \in Nat

VARIABLES
  secure,      \* is there a clipboard API, in a secure context?
  copies,      \* the texts asked for, in order; a copy is its index
  write,       \* copy -> how its writeText() stands
  todo,        \* fallbackCopyToClipboard calls: <<copy>> while one is running
  inputs,      \* temporary <input> elements in the document
  clipboard,   \* the copy the clipboard holds and whether it is whole
  fellBack     \* history: the copies that went through the fallback, in order

vars == <<secure, copies, write, todo, inputs, clipboard, fellBack>>

Nothing == [copy |-> 0, whole |-> TRUE]

TypeOK ==
  /\ secure \in BOOLEAN
  /\ copies \in Seq(Texts)
  /\ write \in [1..Len(copies) -> {"none", "asked", "written", "refused", "over"}]
  /\ todo \in Seq(1..Len(copies)) /\ inputs \subseteq 1..Len(copies)
  /\ clipboard \in [copy : 0..Len(copies), whole : BOOLEAN]
  /\ fellBack \in Seq(1..Len(copies))

Init ==
  /\ secure \in BOOLEAN
  /\ copies = <<>> /\ write = <<>> /\ todo = <<>> /\ inputs = {}
  /\ clipboard = Nothing /\ fellBack = <<>>

Idle == todo = <<>> /\ inputs = {}

\* Mutant: the text is taken from the button after the one that was pressed.
FallBackNext(i) == todo' = <<i + 1>> /\ fellBack' = Append(fellBack, i)

FallBack(i) == todo' = <<i>> /\ fellBack' = Append(fellBack, i)

CopyToClipboard(i) ==
  /\ write' = Append(write, IF secure THEN "asked" ELSE "none")
  /\ IF secure THEN UNCHANGED <<todo, fellBack>> ELSE FallBack(i)

\* The clipboard-copy event of a button with a target, a block before it and a
\* text in it; any other event changes nothing.
Copy(t) ==
  /\ Idle /\ Len(copies) < MaxCopies
  /\ copies' = Append(copies, t)
  /\ CopyToClipboard(Len(copies'))
  /\ UNCHANGED <<secure, inputs, clipboard>>

\* The browser answers writeText, in its own time and in any order.
BrowserWrites(i) ==
  /\ write[i] = "asked"
  /\ write' = [write EXCEPT ![i] = "written"]
  /\ clipboard' = [copy |-> i, whole |-> TRUE]
  /\ UNCHANGED <<secure, copies, todo, inputs, fellBack>>

BrowserRefuses(i) ==
  /\ write[i] = "asked"
  /\ write' = [write EXCEPT ![i] = "refused"]
  /\ UNCHANGED <<secure, copies, todo, inputs, clipboard, fellBack>>

\* Mutant: the fallback runs after a success as well (finally for catch).
SettledAlways(i) ==
  /\ Idle /\ write[i] \in {"written", "refused"}
  /\ write' = [write EXCEPT ![i] = "over"]
  /\ FallBack(i)
  /\ UNCHANGED <<secure, copies, inputs, clipboard>>

\* The promise's handlers: then only logs, catch falls back.
Settled(i) ==
  /\ Idle /\ write[i] \in {"written", "refused"}
  /\ write' = [write EXCEPT ![i] = "over"]
  /\ IF write[i] = "refused" THEN FallBack(i) ELSE UNCHANGED <<todo, fellBack>>
  /\ UNCHANGED <<secure, copies, inputs, clipboard>>

(***************************************************************************)
(* fallbackCopyToClipboard: insert the <input>, copy its value (an <input> *)
(* drops line breaks, the selection ends at 99999), remove it in `finally`.*)
(***************************************************************************)
InsertInput ==
  /\ todo # <<>> /\ inputs = {}
  /\ inputs' = {Head(todo)}
  /\ UNCHANGED <<secure, copies, write, todo, clipboard, fellBack>>

\* Mutant: the <input> is removed only after a successful copy.
ExecCopyLeaks ==
  /\ todo # <<>> /\ inputs # {}
  /\ \/ /\ clipboard' = [copy |-> Head(todo), whole |-> copies[Head(todo)] \in Fits]
        /\ inputs' = {}
     \/ UNCHANGED <<clipboard, inputs>>
  /\ todo' = <<>>
  /\ UNCHANGED <<secure, copies, write, fellBack>>

\* execCommand copies, returns false or throws.
ExecCopy ==
  /\ todo # <<>> /\ inputs # {}
  /\ \/ clipboard' = [copy |-> Head(todo), whole |-> copies[Head(todo)] \in Fits]
     \/ UNCHANGED clipboard
  /\ inputs' = {} /\ todo' = <<>>
  /\ UNCHANGED <<secure, copies, write, fellBack>>

Script == InsertInput \/ ExecCopy \/ \E i \in DOMAIN write : Settled(i)
Browser == \E i \in DOMAIN write : BrowserWrites(i) \/ BrowserRefuses(i)
Next == Script \/ Browser \/ \E t \in Texts : Copy(t)

\* Scripts run and promises settle; the reader need not press a button.
Spec == Init /\ [][Next]_vars /\ WF_vars(Script) /\ WF_vars(Browser)

-----------------------------------------------------------------------------
\* A copy is made once: none falls back twice, and none that the browser has
\* written, so that it cannot come back over what the reader copied since.
CopiedOnce ==
  [][\A i \in DOMAIN copies' : fellBack' = Append(fellBack, i) =>
       /\ \A m \in DOMAIN fellBack : fellBack[m] # i
       /\ i \in DOMAIN write => write[i] # "written"]_vars

\* "Used to solve the problem where copying notebook code blocks does not
\* preserve the original formatting" (clipboard.js:1).
FormatKept == clipboard.whole

\* Every copy comes to an end, and the page has no temporary <input> then.
CopyEnds == []<>(Idle /\ \A i \in DOMAIN write : write[i] \in {"none", "over"})
=============================================================================
