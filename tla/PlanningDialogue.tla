-------------------------- MODULE PlanningDialogue --------------------------
(***************************************************************************)
(* The page of Future Planning: a session chooses a scope and an input     *)
(* method, has its words understood as a structured request (or fills in a *)
(* form), previews it, applies the preview and may undo what it applied.   *)
(* The session's state survives from one run of the script to the next;    *)
(* the plans may change between any two of them.  The widgets of the form  *)
(* have state of their own: the form may be edited above a preview, and the*)
(* preview, its request and its Apply button stay as they are.             *)
(*                                                                         *)
(* A request says of each title what it asks for: "kept" an existing task  *)
(* with its stored work, "stated" one with other minutes, "draft" a new    *)
(* one.  The keys of Apply and Undo are hashes of the preview and of the   *)
(* operation: another session that repeats either gets the same response.  *)
(***************************************************************************)
EXTENDS Naturals, FiniteSets, Sequences

CONSTANTS
  Titles,        \* titles somebody may name
  Scopes,       \* a kind of scope with its dates and start of the day
  MaxRevision,   \* bound: changes of the plans
  Nothing        \* None

VARIABLES
  matching,    \* existing candidates with each title
  revision,    \* revision of the plans in all windows
  dialogue,    \* st.session_state
  operations   \* what has been applied in any session, and undone

dialogueVars == <<matching, revision, dialogue, operations>>

Methods == {"text", "manual"}

\* A structured request of this user: what to do with some titles, and when.
Requests == [scope : Scopes \cup {Nothing},
             work : UNION {[S -> {"kept", "stated", "draft"}] : S \in SUBSET Titles}]

ASSUME DialogueAssumption == Nothing \notin Methods \cup Requests

\* What the form may hold: choices among the existing tasks, and drafts.
Forms == UNION {[S -> {"stated", "draft"}] : S \in SUBSET Titles}

EmptyForm == [t \in {} |-> "draft"]

\* The last two are of the form: what it holds, and, a history, whether it has
\* been edited since the preview was made.
Fresh == [scope |-> Nothing, method |-> Nothing, request |-> Nothing, preview |-> Nothing,
          operation |-> Nothing, form |-> EmptyForm, edited |-> FALSE]

DialogueInit ==
  /\ matching \in [Titles -> 0..2]
  /\ revision = 0
  /\ dialogue = Fresh
  /\ operations = <<>>

\* _clear_after_method and _clear_after_scope, with _clear_manual_widget_state
AfterMethod(d) ==
  [d EXCEPT !.request = Nothing, !.preview = Nothing, !.form = EmptyForm, !.edited = FALSE]
AfterScope(d) == [AfterMethod(d) EXCEPT !.method = Nothing]

Page(d) == dialogue' = d /\ UNCHANGED <<matching, revision, operations>>

-----------------------------------------------------------------------------
(* Scope and method *)

ChooseScope(w) ==
  /\ dialogue.scope = Nothing
  /\ Page(AfterScope([dialogue EXCEPT !.scope = w]))

ChangeScope ==
  /\ dialogue.scope # Nothing
  /\ Page(AfterScope([dialogue EXCEPT !.scope = Nothing]))

\* Other dates in the widgets: a request made for the old ones is dropped.
ChangeDates(w) ==
  /\ dialogue.scope \notin {Nothing, w}
  /\ LET d == [dialogue EXCEPT !.scope = w]
     IN Page(IF d.request # Nothing /\ d.request.scope # w THEN AfterMethod(d) ELSE d)

ChooseMethod(m) ==
  /\ dialogue.scope # Nothing /\ dialogue.method = Nothing
  /\ Page(AfterMethod([dialogue EXCEPT !.method = m]))

ChangeMethod ==
  /\ dialogue.method # Nothing
  /\ Page(AfterMethod([dialogue EXCEPT !.method = Nothing]))

-----------------------------------------------------------------------------
(* Understanding *)

\* What the model extracts of each title: its duration, if it is named at all.
Intents == [Titles -> {"unnamed", "silent", "user_explicit", "estimated"}]

Named(intent) == {t \in Titles : intent[t] # "unnamed"}

\* build_request has a question, or rejects the answer of the model.
Clarify(intent) == Named(intent) = {} \/ \E t \in Named(intent) : matching[t] > 1
Invalid(intent) == \E t \in Named(intent) : matching[t] = 0 /\ intent[t] = "silent"

\* An estimate never replaces the stored work of an existing task.
Understood(intent) ==
  [t \in Named(intent) |-> IF matching[t] = 0 THEN "draft"
                           ELSE IF intent[t] = "user_explicit" THEN "stated" ELSE "kept"]

\* Mutant of WithRequest: the old preview stays.
WithRequestOnly(d, r) == [d EXCEPT !.request = r]

WithRequest(d, r) == [d EXCEPT !.request = r, !.preview = Nothing]

\* A question or a failure changes nothing on the page.
Understand(intent) ==
  /\ dialogue.method = "text"
  /\ ~Clarify(intent) /\ ~Invalid(intent)
  /\ Page(WithRequest(dialogue, [scope |-> dialogue.scope, work |-> Understood(intent)]))

-----------------------------------------------------------------------------
(* Preview, Apply, Undo *)

\* Existing tasks of the request are still there.
StillThere(request) == \A t \in DOMAIN request.work : request.work[t] # "draft" => matching[t] > 0

\* Drafts carry identities made in their session: a preview with one is its own.
PreviewBy(who, request) ==
  [request |-> request, revision |-> revision,
   by |-> IF \E t \in DOMAIN request.work : request.work[t] = "draft" THEN who ELSE "anyone"]

\* _preview_request; a preview that is rejected leaves the older one.
Previewed(request) ==
  /\ StillThere(request)
  /\ Page([dialogue EXCEPT !.request = request, !.preview = PreviewBy("me", request),
                            !.edited = FALSE])

PreviewText == dialogue.method = "text" /\ dialogue.request # Nothing /\ Previewed(dialogue.request)

\* A widget of the form is used; or it loses its value, because its choice is no
\* longer offered or because it was not drawn for a while.
EditForm(work) ==
  /\ dialogue.method = "manual" /\ work # dialogue.form
  /\ Page([dialogue EXCEPT !.form = work, !.edited = dialogue.preview # Nothing])

\* The button under the form, disabled while nothing is filled in.
PreviewManual ==
  /\ dialogue.method = "manual" /\ dialogue.form # EmptyForm
  /\ Previewed([scope |-> dialogue.scope, work |-> dialogue.form])

\* FuturePlanningService.apply at the revision of the preview; drafts become tasks.
CommitPreview(preview, shown) ==
  /\ preview.revision = revision /\ revision < MaxRevision
  /\ revision' = revision + 1
  /\ operations' = Append(operations, [preview |-> preview, shown |-> shown, before |-> matching,
                                       result |-> revision + 1, undone |-> FALSE])
  /\ matching' = [t \in Titles |->
       IF t \in DOMAIN preview.request.work /\ preview.request.work[t] = "draft" /\ matching[t] < 2
       THEN matching[t] + 1 ELSE matching[t]]

\* What the page shows of an operation before it is applied: the dates and the
\* request, and on the manual path the form.
ShownBy(d) == [scope |-> d.scope, request |-> d.request, method |-> d.method,
               form |-> d.form, edited |-> d.edited]

Answered(preview) == {o \in DOMAIN operations : operations[o].preview = preview}

\* The button of the preview on the page.  The response of a key with a record
\* is that of the operation it recorded, undone since or not.
Apply ==
  /\ dialogue.preview # Nothing
  /\ IF Answered(dialogue.preview) # {}
     THEN /\ \E o \in Answered(dialogue.preview) :
               dialogue' = AfterMethod([dialogue EXCEPT !.operation = o])
          /\ UNCHANGED <<matching, revision, operations>>
     ELSE /\ CommitPreview(dialogue.preview, ShownBy(dialogue))
          /\ dialogue' = AfterMethod([dialogue EXCEPT !.operation = Len(operations) + 1])

\* What existed before is there again, and nothing later is lost.
UndoOperation(o) ==
  /\ ~operations[o].undone /\ operations[o].result = revision /\ revision < MaxRevision
  /\ operations' = [operations EXCEPT ![o].undone = TRUE]
  /\ revision' = revision + 1
  /\ matching' = operations[o].before

\* A rejected Undo keeps the button, an answered one takes it away.
UndoLast ==
  /\ dialogue.operation # Nothing
  /\ \/ UndoOperation(dialogue.operation)
     \/ operations[dialogue.operation].undone /\ UNCHANGED <<matching, revision, operations>>
  /\ dialogue' = [dialogue EXCEPT !.operation = Nothing]

-----------------------------------------------------------------------------
(* Other sessions of the user, and the end of this one *)

ApplyElsewhere(w, work) ==
  LET request == [scope |-> w, work |-> work]  preview == PreviewBy("them", request) IN
  /\ work # EmptyForm /\ StillThere(request) /\ Answered(preview) = {}
  /\ \E edited \in BOOLEAN, form \in Forms :
       /\ edited \/ form = work
       /\ CommitPreview(preview, [scope |-> w, request |-> request, method |-> "manual",
                                  form |-> form, edited |-> edited])
  /\ UNCHANGED dialogue

UndoElsewhere == \E o \in DOMAIN operations : UndoOperation(o) /\ UNCHANGED dialogue

\* A candidate is added, or is deleted, completed or moved out of the scope.
EditElsewhere(t) ==
  /\ revision < MaxRevision /\ revision' = revision + 1
  /\ \E n \in {matching[t] - 1, matching[t] + 1} \cap 0..2 : matching' = [matching EXCEPT ![t] = n]
  /\ UNCHANGED <<dialogue, operations>>

Reload == dialogue # Fresh /\ Page(Fresh)

DialogueNext ==
  \/ \E w \in Scopes : ChooseScope(w) \/ ChangeDates(w)
  \/ ChangeScope \/ ChangeMethod \/ \E m \in Methods : ChooseMethod(m)
  \/ \E intent \in Intents : Understand(intent)
  \/ \E work \in Forms : EditForm(work)
  \/ PreviewText \/ PreviewManual
  \/ Apply \/ UndoLast \/ UndoElsewhere \/ Reload
  \/ \E w \in Scopes, work \in Forms : ApplyElsewhere(w, work)
  \/ \E t \in Titles : EditElsewhere(t)

-----------------------------------------------------------------------------
\* The form says what is previewed, unless it has been edited since.
FormSays(shown) ==
  shown.method = "manual" => shown.edited \/ shown.request.work = shown.form

\* "Choose the work first, then preview exact placements before saving": however
\* scope, dates, method, words and form change and whatever others do, the
\* preview on the page is that of the stored request, within the dates chosen.
\* After words this is the request shown above it; on the manual path it is what
\* the form held when the preview was made, which the form may have left since.
\* Whatever was applied had been shown like that and was computed from the plans
\* it changed; and the page offers to undo only what has been applied.
AppliedWasShown ==
  /\ dialogue.preview # Nothing =>
       /\ dialogue.preview.request = dialogue.request
       /\ dialogue.request.scope = dialogue.scope /\ dialogue.method # Nothing
       /\ FormSays(ShownBy(dialogue))
  /\ \A o \in DOMAIN operations :
       LET q == operations[o] IN
       /\ q.preview.request = q.shown.request /\ q.shown.request.scope = q.shown.scope
       /\ FormSays(q.shown)
       /\ \A t \in DOMAIN q.shown.request.work :
            q.shown.request.work[t] \in {"kept", "stated"} => q.before[t] > 0
  /\ dialogue.operation # Nothing => dialogue.operation \in DOMAIN operations

\* On the manual path too, what Apply will do is what the page shows.  Not so
\* once the form below which the preview stands has been edited.
PreviewIsOfForm ==
  dialogue.preview # Nothing /\ dialogue.method = "manual" =>
    dialogue.preview.request.work = dialogue.form

\* The message of the page, "Future plan saved atomically": the operation of a
\* successful Apply is in force until the plans change again.  A repetition of
\* an undone one is told the same.
SavedIsInForce ==
  [][dialogue'.operation # dialogue.operation /\ dialogue'.operation # Nothing
       => ~operations'[dialogue'.operation].undone]_dialogueVars
=============================================================================
