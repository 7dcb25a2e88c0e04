------------------------------ MODULE PanelForms ------------------------------
(***************************************************************************)
(* A form of the panel and its draft: the composer of a ticket, a section  *)
(* of the bot's content, the theme, a broadcast.  What is typed is kept in *)
(* localStorage, requests go on when the page is left, and their answers   *)
(* meet a form that has been typed into, mounted anew or closed.           *)
(*                                                                         *)
(* A value of a form is its text and its image; the files of a message     *)
(* stand where the image does.  Every text that somebody types has a       *)
(* number of its own, so a text is known wherever it turns up; 0 is the    *)
(* blank one.  Validation is only that nothing to say is refused.          *)
(***************************************************************************)
EXTENDS Integers, FiniteSets

CONSTANTS
    Kinds,      \* which of "composer", "section", "theme" and "broadcast"
    MaxTyped,   \* bound: texts
    MaxImages,  \* bound: images
    MaxSends,   \* bound: requests of this form
    OthersAfter, \* bound: another save comes after this many
    None

ASSUME PanelFormsAssumption ==
    /\ Kinds \subseteq {"composer", "section", "theme", "broadcast"}
    /\ MaxTyped \in Nat /\ MaxImages \in Nat /\ MaxSends \in Nat /\ OthersAfter \in Nat
    /\ None \notin [value : [text : Nat, photo : Nat], number : Nat]

Value == [text : 0 .. MaxTyped, photo : 0 .. MaxImages]
Blank == [text |-> 0, photo |-> 0]
Sends == 1 .. MaxSends

VARIABLES
    kind,       \* the form
    typed,      \* the last text that somebody typed
    images,     \* the last image that was picked or uploaded
    server,     \* the value that is saved there, and how often it was
    query,      \* the cached answer with that value
    page,       \* the page of the form is shown
    form,       \* the form, when it is mounted
    upload,     \* an upload in flight: the value its callback has captured
    confirming, \* the dialog of a broadcast is open
    draft,      \* localStorage
    sends       \* the requests of this form

vars == <<kind, typed, images, server, query, page, form, upload, confirming, draft, sends>>

\* The forms that start from what the server has.
Edits == kind \in {"section", "theme"}

NoForm == [on |-> FALSE, value |-> Blank, editor |-> 0, timer |-> FALSE, restored |-> FALSE]

Unloaded == [data |-> None, fetch |-> "none", got |-> None, failed |-> FALSE, invalid |-> FALSE]

Unsent == [stage |-> "none", value |-> Blank, number |-> 0, live |-> FALSE, ok |-> FALSE]

-----------------------------------------------------------------------------
\* Drafts.

Base(q) == IF Edits THEN q.data.value ELSE Blank

\* isBroadcastEmpty: a photo alone is kept.
isBroadcastEmpty(value) == value = Blank

\* The isEmpty of the form that is mounted.
isEmpty(value) ==
    CASE kind = "composer" -> value.text = 0
      [] Edits -> value.text = Base(query).text
      [] kind = "broadcast" -> isBroadcastEmpty(value)

\* storableDraft and storableTheme leave the image out, and files are never stored.
Storable(value) == IF kind = "broadcast" THEN value ELSE [value EXCEPT !.photo = 0]

\* useDraftSaver's persist.
Persisted(value) == IF isEmpty(value) THEN None ELSE Storable(value)

\* readDraft, then parseComposerText, restoreSectionDraft, restoreTheme or restoreBroadcast.
Restored(base, d) == IF kind = "broadcast" THEN d ELSE [base EXCEPT !.text = d.text]

\* What a form that is mounted starts from.
Fresh(base, d) ==
    LET value == IF d = None THEN base ELSE Restored(base, d)
    IN  [on |-> TRUE, value |-> value, editor |-> value.text, timer |-> TRUE,
         restored |-> kind # "composer" /\ d # None /\ (kind = "broadcast" \/ value # base)]

Dirty == form.value # Base(query)

\* isPending of the mutation that the mounted form follows.
Pending == \E i \in Sends : sends[i].live /\ sends[i].stage \in {"sent", "stored", "reread"}

Detached(requests) == [i \in Sends |-> [requests[i] EXCEPT !.live = FALSE]]

\* The form is there once its value has been read, and not when it could not be read again.
Shows(p, q) == p /\ (Edits => q.data # None /\ ~q.failed)

\* Fault: the form is kept while its value cannot be read.
StaysUnread(p, q) == form.on /\ p /\ Base(q) = Base(query)

Stays(p, q) == form.on /\ Shows(p, q) /\ Base(q) = Base(query)

\* The page after a step.  The form is keyed by the saved value: another one mounts it
\* anew, and then nothing that is in flight reports to it.
Render(p, q, d, requests) ==
    /\ page' = p /\ query' = q /\ draft' = d
    /\ form' = IF Stays(p, q) THEN form ELSE IF Shows(p, q) THEN Fresh(Base(q), d) ELSE NoForm
    /\ sends' = IF Stays(p, q) THEN requests ELSE Detached(requests)
    /\ upload' = IF Stays(p, q) THEN upload ELSE None
    /\ confirming' = (confirming /\ Stays(p, q))

\* What has been saved so far.
Saved == [value : Value, number : 0 .. server.number]

TypeOK ==
    /\ kind \in Kinds /\ typed \in 0 .. MaxTyped /\ images \in 0 .. MaxImages
    /\ server \in [value : Value, number : 0 .. MaxSends + 1]
    /\ query \in [data : Saved \union {None}, fetch : {"none", "sent", "read"},
                  got : Saved \union {None}, failed : BOOLEAN, invalid : BOOLEAN]
    /\ (query.got # None <=> query.fetch = "read")
    /\ page \in BOOLEAN /\ (form.on => Shows(page, query)) /\ (~form.on => form = NoForm)
    /\ form \in [on : BOOLEAN, value : Value, editor : 0 .. MaxTyped, timer : BOOLEAN,
                 restored : BOOLEAN]
    /\ upload \in Value \union {None} /\ confirming \in BOOLEAN
    /\ (upload # None \/ confirming \/ (\E i \in Sends : sends[i].live) => form.on)
    /\ draft \in Value \union {None}
    /\ sends \in [Sends -> [stage : {"none", "sent", "stored", "reread", "deaf", "over"},
                           value : Value, number : 0 .. server.number,
                           live : BOOLEAN, ok : BOOLEAN]]
    /\ Cardinality({i \in Sends : sends[i].live /\ sends[i].stage # "over"}) <= 1

Init ==
    /\ kind \in Kinds /\ typed = 0 /\ images = 0
    /\ server = [value |-> Blank, number |-> 0]
    /\ query = Unloaded /\ page = FALSE /\ form = NoForm
    /\ upload = None /\ confirming = FALSE /\ draft = None
    /\ sends = [i \in Sends |-> Unsent]

-----------------------------------------------------------------------------
\* The query of the saved value.

Fetching(q) == [q EXCEPT !.fetch = "sent", !.got = None]

\* Fault: the request that is out already will do.
InvalidatedJoins(q) ==
    IF page THEN [q EXCEPT !.fetch = IF @ = "none" THEN "sent" ELSE @, !.invalid = TRUE]
    ELSE [q EXCEPT !.invalid = TRUE]

\* invalidateQueries: the request that is out is cancelled, but for the first one.
Invalidated(q) ==
    IF page /\ (q.data # None \/ q.fetch = "none") THEN [Fetching(q) EXCEPT !.invalid = TRUE]
    ELSE [q EXCEPT !.invalid = TRUE]

Refetch ==
    /\ Edits /\ page /\ query.fetch = "none"
    /\ query' = Fetching(query)
    /\ UNCHANGED <<kind, typed, images, server, page, form, upload, confirming, draft, sends>>

Read ==
    /\ query.fetch = "sent"
    /\ query' = [query EXCEPT !.fetch = "read", !.got = server]
    /\ UNCHANGED <<kind, typed, images, server, page, form, upload, confirming, draft, sends>>

\* The saves that wait for this answer are over: onSuccess of submit forgets the draft,
\* before the page is rendered.
Reread == [i \in Sends |->
    IF sends[i].stage = "reread" THEN [sends[i] EXCEPT !.stage = "over"] ELSE sends[i]]

DraftAfterReread ==
    IF \E i \in Sends : sends[i].stage = "reread" /\ sends[i].live THEN None ELSE draft

FetchAnswered ==
    /\ query.fetch = "read"
    /\ Render(page, [Unloaded EXCEPT !.data = query.got], DraftAfterReread, Reread)
    /\ UNCHANGED <<kind, typed, images, server>>

\* After the repetitions, or with a 4xx: the page shows an error instead of the form.
FetchFails ==
    /\ query.fetch # "none"
    /\ Render(page, [query EXCEPT !.fetch = "none", !.got = None, !.failed = TRUE,
                                  !.invalid = TRUE], DraftAfterReread, Reread)
    /\ UNCHANGED <<kind, typed, images, server>>

-----------------------------------------------------------------------------
\* The page.

OpenPage ==
    /\ ~page
    /\ \E old \in BOOLEAN :
          LET reads == Edits /\ query.fetch = "none" /\ (query.data = None \/ query.invalid \/ old)
          IN  Render(TRUE, IF reads THEN Fetching(query) ELSE query, draft, sends)
    /\ UNCHANGED <<kind, typed, images, server>>

\* Nothing stores the last 300 ms.
LeavePage ==
    /\ page /\ kind # "section"
    /\ Render(FALSE, query, draft, sends)
    /\ UNCHANGED <<kind, typed, images, server>>

\* A section asks before it is left with changes: the person stays, or the draft is forgotten.
LeaveSection ==
    /\ page /\ kind = "section"
    /\ Render(FALSE, query, IF form.on /\ Dirty /\ ~Pending THEN None ELSE draft, sends)
    /\ UNCHANGED <<kind, typed, images, server>>

\* Everything but localStorage is gone.
Gone(d) ==
    /\ page' = FALSE /\ query' = Unloaded /\ form' = NoForm /\ upload' = None
    /\ confirming' = FALSE /\ draft' = d
    /\ UNCHANGED <<kind, typed, images, server>>

\* F5, or the tab is closed: pagehide stores what is typed, and no answer is heard any more.
Reload ==
    /\ Gone(IF form.on THEN Persisted(form.value) ELSE draft)
    /\ sends' = [i \in Sends |->
          [sends[i] EXCEPT !.live = FALSE,
              !.stage = CASE @ = "sent" -> "deaf" [] @ \in {"stored", "reread"} -> "over" [] OTHER -> @]]

\* useLogout forgets all drafts; a rejected token does not, the same person may come back.
SessionEnds ==
    /\ page
    /\ \E d \in {None, draft} : Gone(d)
    /\ sends' = Detached(Reread)

\* DRAFT_TTL_MS, and PHOTO_FRESH_MS: the next one to read it drops it.
DraftExpires ==
    /\ ~form.on /\ draft # None
    /\ draft' \in {None, [draft EXCEPT !.photo = 0]}
    /\ UNCHANGED <<kind, typed, images, server, query, page, form, upload, confirming, sends>>

-----------------------------------------------------------------------------
\* The form.

\* Fault: the timer is not set again, the draft of before is kept.
EnteredWithoutTimer(value, editor) ==
    form' = [form EXCEPT !.value = value, !.editor = editor]

Entered(value, editor) ==
    form' = [form EXCEPT !.value = value, !.editor = editor, !.timer = TRUE]

Types ==
    /\ form.on
    /\ \E text \in {0, typed + 1} :
          /\ text <= MaxTyped /\ text # form.editor
          /\ typed' = IF text = 0 THEN typed ELSE text
          /\ Entered([form.value EXCEPT !.text = text], text)
    /\ UNCHANGED <<kind, images, server, query, page, upload, confirming, draft, sends>>

\* The composer waits for its answer, and so does the caption of its files.
TypeMessage == kind = "composer" /\ ~Pending /\ Types

TypeInSection == kind = "section" /\ Types

TypeInTheme == kind = "theme" /\ Types

\* The dialog is above the form.
TypeInBroadcast == kind = "broadcast" /\ ~confirming /\ Types

\* SAVE_DELAY_MS after the last change.
SaveDraft ==
    /\ form.timer
    /\ form' = [form EXCEPT !.timer = FALSE]
    /\ draft' = Persisted(form.value)
    /\ UNCHANGED <<kind, typed, images, server, query, page, upload, confirming, sends>>

\* "Сбросить" under the notice of a restored draft.
ResetDraft ==
    /\ Edits /\ form.on /\ form.restored
    /\ form' = Fresh(Base(query), None) /\ draft' = None
    /\ UNCHANGED <<kind, typed, images, server, query, page, upload, confirming, sends>>

\* clear also mounts the form of a broadcast anew, with the picker and the mutation in it.
ClearBroadcast ==
    /\ kind = "broadcast" /\ form.on /\ form.restored /\ ~confirming
    /\ form' = Fresh(Blank, None) /\ draft' = None
    /\ upload' = None /\ sends' = Detached(sends)
    /\ UNCHANGED <<kind, typed, images, server, query, page, confirming>>

-----------------------------------------------------------------------------
\* The files of a message.  Their dialog has the caption, the text of the composer.

PickFiles ==
    /\ kind = "composer" /\ form.on /\ ~Pending /\ images < MaxImages
    /\ images' = images + 1
    /\ form' = [form EXCEPT !.value.photo = images + 1]
    /\ UNCHANGED <<kind, typed, server, query, page, upload, confirming, draft, sends>>

\* The last cross, "Отмена", or Escape: also while they are being sent.
DropFiles ==
    /\ kind = "composer" /\ form.value.photo # 0
    /\ form' = [form EXCEPT !.value.photo = 0]
    /\ UNCHANGED <<kind, typed, images, server, query, page, upload, confirming, draft, sends>>

-----------------------------------------------------------------------------
\* ImagePicker.

PickImage ==
    /\ kind # "composer" /\ form.on /\ ~confirming /\ upload = None /\ images < MaxImages
    /\ upload' = form.value
    /\ UNCHANGED <<kind, typed, images, server, query, page, form, confirming, draft, sends>>

Uploaded ==
    /\ upload # None
    /\ images' = images + 1 /\ upload' = None
    /\ UNCHANGED <<kind, typed, server, query, page, confirming, draft, sends>>

\* onChange of the render in which the file was picked: patch puts the image on the draft
\* of then.  The editor of a section keeps its text, the fields of the theme do not.
SectionImageUploaded ==
    /\ kind = "section" /\ Uploaded
    /\ Entered([upload EXCEPT !.photo = images + 1], form.editor)

LogoUploaded ==
    /\ kind = "theme" /\ Uploaded
    /\ Entered([upload EXCEPT !.photo = images + 1], upload.text)

\* The photo of a broadcast is a state of its own.
PhotoUploaded ==
    /\ kind = "broadcast" /\ Uploaded
    /\ Entered([form.value EXCEPT !.photo = images + 1], form.editor)

UploadFails ==
    /\ upload # None
    /\ upload' = None
    /\ UNCHANGED <<kind, typed, images, server, query, page, form, confirming, draft, sends>>

\* "Убрать": the photo of a broadcast and the logo.
RemoveImage ==
    /\ kind \in {"theme", "broadcast"} /\ form.on /\ ~confirming /\ form.value.photo # 0
    /\ Entered([form.value EXCEPT !.photo = 0], form.editor)
    /\ UNCHANGED <<kind, typed, images, server, query, page, upload, confirming, draft, sends>>

-----------------------------------------------------------------------------
\* Sending.

Posts ==
    /\ form.on /\ ~Pending
    /\ \E i \in Sends :
          /\ sends[i] = Unsent /\ \A j \in 1 .. i - 1 : sends[j] # Unsent
          /\ sends' = [Detached(sends) EXCEPT ![i] = [Unsent EXCEPT !.stage = "sent",
                                                   !.value = form.value, !.live = TRUE]]
    /\ UNCHANGED <<kind, typed, images, server, query, page, form, upload, confirming, draft>>

\* hasContent: a text or files.
hasContent(value) == value # Blank

\* validateSection, validateTheme and validateBroadcast, of what can be told apart here.
Valid(value) == value.text # 0

SendMessage == kind = "composer" /\ hasContent(form.value) /\ Posts

SaveSection == kind = "section" /\ Valid(form.value) /\ Dirty /\ Posts

SaveTheme == kind = "theme" /\ Valid(form.value) /\ Dirty /\ Posts

\* The form of a broadcast asks first.
SubmitBroadcast ==
    /\ kind = "broadcast" /\ form.on /\ ~confirming /\ Valid(form.value)
    /\ confirming' = TRUE
    /\ UNCHANGED <<kind, typed, images, server, query, page, form, upload, draft, sends>>

ConfirmBroadcast == kind = "broadcast" /\ confirming /\ Posts

\* "Отмена" and Escape, also while the request is out: reset lets go of it.
CancelBroadcast ==
    /\ confirming
    /\ confirming' = FALSE /\ sends' = Detached(sends)
    /\ UNCHANGED <<kind, typed, images, server, query, page, form, upload, draft>>

Store(i) ==
    /\ sends[i].stage \in {"sent", "deaf"}
    /\ server' = [value |-> IF Edits THEN sends[i].value ELSE Blank, number |-> server.number + 1]
    /\ sends' = [sends EXCEPT ![i].stage = IF @ = "sent" THEN "stored" ELSE "over",
                              ![i].number = server.number + 1]
    /\ UNCHANGED <<kind, typed, images, query, page, form, upload, confirming, draft>>

Succeeded(i, stage) == [sends EXCEPT ![i].stage = stage, ![i].ok = TRUE]

\* Fault: the editor of the text that went out stays.
ClearedKeepsEditor == [form EXCEPT !.value = Blank, !.timer = TRUE, !.restored = FALSE]

\* onSuccess of a composer and of a broadcast.
Cleared == [NoForm EXCEPT !.on = TRUE, !.timer = TRUE]

MessageSent(i) ==
    /\ kind = "composer" /\ sends[i].stage = "stored"
    /\ form' = IF sends[i].live THEN Cleared ELSE form
    /\ sends' = Succeeded(i, "over")
    /\ UNCHANGED <<kind, typed, images, server, query, page, upload, confirming, draft>>

BroadcastSent(i) ==
    /\ kind = "broadcast" /\ sends[i].stage = "stored"
    /\ IF sends[i].live
       THEN /\ form' = Cleared /\ upload' = None /\ confirming' = FALSE /\ draft' = None
            /\ sends' = Detached(Succeeded(i, "over"))
       ELSE sends' = Succeeded(i, "over") /\ UNCHANGED <<form, upload, confirming, draft>>
    /\ UNCHANGED <<kind, typed, images, server, query, page>>

\* useSaveSection reads the content again, and submit goes on after that.
SectionSaved(i) ==
    /\ kind = "section" /\ sends[i].stage = "stored"
    /\ query' = Invalidated(query)
    /\ sends' = Succeeded(i, IF page THEN "reread" ELSE "over")
    /\ UNCHANGED <<kind, typed, images, server, page, form, upload, confirming, draft>>

\* The theme puts the answer into the cache, whatever is in flight.
ThemeSaved(i) ==
    /\ kind = "theme" /\ sends[i].stage = "stored"
    /\ Render(page, [query EXCEPT !.data = [value |-> sends[i].value, number |-> sends[i].number],
                                  !.failed = FALSE, !.invalid = FALSE],
              None, Succeeded(i, "over"))
    /\ UNCHANGED <<kind, typed, images, server>>

\* Refused, or the request or its answer is lost.
SendFails(i) ==
    /\ sends[i].stage \in {"sent", "stored", "deaf"}
    /\ sends' = [sends EXCEPT ![i].stage = "over", ![i].live = FALSE]
    /\ UNCHANGED <<kind, typed, images, server, query, page, form, upload, confirming, draft>>

\* Another administrator saves, or takes back what is there.
OtherSaves ==
    /\ Edits /\ server.number = OthersAfter
    /\ \E text \in {0, typed + 1} :
          /\ text <= MaxTyped /\ text # server.value.text
          /\ typed' = IF text = 0 THEN typed ELSE text
          /\ server' = [value |-> [server.value EXCEPT !.text = text], number |-> server.number + 1]
    /\ UNCHANGED <<kind, images, query, page, form, upload, confirming, draft, sends>>

-----------------------------------------------------------------------------
Page == OpenPage \/ LeavePage \/ LeaveSection \/ Reload \/ SessionEnds \/ DraftExpires

Query == Refetch \/ Read \/ FetchAnswered \/ FetchFails

Fields ==
    \/ TypeMessage \/ TypeInSection \/ TypeInTheme \/ TypeInBroadcast
    \/ SaveDraft \/ ResetDraft \/ ClearBroadcast
    \/ PickFiles \/ DropFiles
    \/ PickImage \/ SectionImageUploaded \/ LogoUploaded \/ PhotoUploaded
    \/ UploadFails \/ RemoveImage

Requests ==
    \/ SendMessage \/ SaveSection \/ SaveTheme
    \/ SubmitBroadcast \/ ConfirmBroadcast \/ CancelBroadcast
    \/ \E i \in Sends : Store(i) \/ MessageSent(i) \/ BroadcastSent(i) \/ SectionSaved(i)
                            \/ ThemeSaved(i) \/ SendFails(i)

Next == Page \/ Query \/ Fields \/ Requests \/ OtherSaves

Spec == Init /\ [][Next]_vars

-----------------------------------------------------------------------------
(* Properties. *)

\* What is on the screen and older than the delay of the saver is in localStorage, and
\* nothing else is: a draft does not come back after it was sent or reset while the form
\* is there.  Of a section and of the theme, the answer to a save also drops what was
\* typed while it was on its way.
StoredAsShown ==
    form.on /\ ~form.timer
        => \/ draft = Persisted(form.value)
           \/ Edits /\ draft = None /\ \E i \in Sends : sends[i].ok

\* What goes out is what the person sees: the text of an editor, which is read only when it
\* is mounted, follows every reset of the form.
SendsWhatIsShown ==
    kind # "section" => (form.on => form.editor = form.value.text)

\* A section that says that it was saved shows what was saved, or something later: a
\* reading that was out before the save does not bring the text of before back.
ShowsWhatItSaved ==
    [][\A i \in Sends :
          (sends[i].stage = "reread" /\ sends[i].live /\ sends'[i].stage = "over" /\ form'.on)
              => query'.data.number >= sends[i].number]_vars

\* What RichTextField.tsx says of its editor: the initial value is enough, since the form
\* mounts it anew.  Its text is that of the form.
EditorShowsDraft == form.on => form.editor = form.value.text

==============================================================================
