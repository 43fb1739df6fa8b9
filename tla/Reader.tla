------------------------------- MODULE Reader -------------------------------
(***************************************************************************)
(* Reading mail: the pane of the main window and the viewer dialog.  Both    *)
(* are the same machine with a few lines of difference and share nothing but *)
(* the store and the settings, so one pane is modelled, of either kind: its  *)
(* list, its message, translation and remote images by workers whose answers *)
(* may be late, the boxes under which the message can change, and the saving *)
(* of attachments.                                                           *)
(***************************************************************************)
EXTENDS Naturals, Sequences, FiniteSets, SequencesExt

CONSTANTS
  Messages, Html, Remote,   \* the mail; with an HTML body; with images on the network
  Chunks,                   \* requests the translation of a text takes, 0 for no text
  Attachments,              \* the names of the attachments, in order
  Stems, Fold,              \* a name is a stem and the numbers added to it; its casefold
  Existing,                 \* names in the directory attachments are saved to
  Languages, Prefs,         \* and the settings that are chosen
  MaxGen, MaxTGen, MaxLoads, \* bounds: generations of messages and translations, image workers
  None

ASSUME ReaderAssumption ==
  /\ Remote \subseteq Html /\ Html \subseteq Messages /\ None \notin Messages
  /\ Prefs \subseteq [lang : Languages, confirm : BOOLEAN, auto : BOOLEAN]
  /\ Attachments \in [Messages -> Seq(DOMAIN Fold)] /\ Fold \in [DOMAIN Fold -> Seq(Stems \cup Nat)]
  /\ IsFiniteSet(Existing)
  /\ Chunks \in [Messages -> Nat] /\ MaxGen \in Nat /\ MaxTGen \in Nat /\ MaxLoads \in Nat

VARIABLES
  kind,        \* "main" or "viewer"
  prefs,       \* the settings: language, confirmation, automatic images
  auto,        \* the viewer's copy of the last, from when it was opened
  current,     \* the message shown
  gen,         \* _message_generation, _render_generation
  tgen, active,        \* _translation_generation, _active_translation_generation
  translated, showing, \* the translation of the message, and whether it is shown
  fragment,    \* the HTML last rendered is with or without images
  body, view,  \* what the widget shows, and the web view behind it
  button,      \* "load images" is enabled
  modal,       \* the question or the file dialog open
  tjobs, ijobs, timers, loads,  \* workers and their answers on the way, timers pending
  allowed, fetched,    \* history: images asked for, images requested
  clobbered, misfiled  \* history: a save overwrote a file, took the files of another message

text   == <<tgen, active, translated, showing>>
image  == <<fragment, button, ijobs, timers, loads, allowed, fetched>>
shown  == <<body, view>>
folder == <<clobbered, misfiled>>
conf   == <<kind, prefs, auto>>
vars == <<conf, current, gen, text, image, shown, modal, tjobs, folder>>

Modals == [box : {"ask", "one", "all"}, msg : Messages, expected : 0..MaxTGen]
TJobs  == [gen : 0..MaxTGen, msg : Messages, lang : Languages, left : Nat,
           stage : {"running", "translated", "failed", "finished"}]
IJobs  == [id : 1..MaxLoads, gen : 0..MaxGen, msg : Messages,
           stage : {"running", "images", "nothing", "error", "finished"}]

TypeOK ==
  /\ kind \in {"main", "viewer"} /\ prefs \in Prefs /\ auto \in BOOLEAN
  /\ current \in Messages \cup {None}
  /\ gen \in 0..MaxGen /\ tgen \in 0..MaxTGen /\ active \in 0..MaxTGen \cup {None}
  /\ translated \in [msg : Messages, lang : Languages] \cup {None} /\ showing \in BOOLEAN
  /\ fragment \in {"text", "images"} /\ button \in BOOLEAN
  /\ body \in [msg : Messages \cup {None}, as : {"empty", "text", "images", "translation"}]
  /\ view \in {"none", "alive", "gone"} /\ modal \in Modals \cup {None}
  /\ tjobs \subseteq TJobs /\ ijobs \subseteq IJobs /\ timers \in Nat /\ loads \in 0..MaxLoads
  /\ allowed \subseteq Messages /\ fetched \subseteq Messages
  /\ clobbered \in BOOLEAN /\ misfiled \in BOOLEAN

Init ==
  /\ kind \in {"main", "viewer"} /\ prefs \in Prefs /\ auto = prefs.auto
  /\ current = None /\ gen = 0 /\ tgen = 0 /\ active = None
  /\ translated = None /\ showing = FALSE /\ fragment = "text" /\ button = TRUE
  /\ body = [msg |-> None, as |-> "empty"] /\ view = (IF kind = "main" THEN "none" ELSE "alive")
  /\ modal = None /\ tjobs = {} /\ ijobs = {} /\ timers = 0 /\ loads = 0 /\ allowed = {} /\ fetched = {}
  /\ clobbered = FALSE /\ misfiled = FALSE

\* open_mail_viewer, after the last viewer was closed: a dialog of its own, which
\* the answers the old one waits for do not reach.
Open ==
  /\ kind = "viewer" /\ view = "gone" /\ auto' = prefs.auto
  /\ current' = None /\ gen' = 0 /\ tgen' = 0 /\ active' = None
  /\ translated' = None /\ showing' = FALSE /\ fragment' = "text" /\ button' = TRUE
  /\ body' = [msg |-> None, as |-> "empty"] /\ view' = "alive"
  /\ tjobs' = {} /\ ijobs' = {} /\ timers' = 0 /\ loads' = 0 /\ allowed' = {} /\ fetched' = {}
  /\ UNCHANGED <<kind, prefs, modal, folder>>

-----------------------------------------------------------------------------
(* The message shown *)

\* setHtml and setPlainText: the lazy view of the main window makes its web view
\* when it is needed, the one of a closed viewer is deleted and the call raises.
Dead == kind = "viewer" /\ view = "gone"
Render(b) == body' = b /\ view' = "alive"

AutoLoads == IF kind = "main" THEN prefs.auto ELSE auto

BusyKept   == tgen' = tgen + 1 /\ translated' = None /\ showing' = FALSE /\ UNCHANGED active  \* slip
Invalidate == tgen' = tgen + 1 /\ active' = None /\ translated' = None /\ showing' = FALSE

\* _message_selected and _show_message; the timer starts when the slot returns.
Armed(m)  == m \in Remote /\ AutoLoads
Always(m) == m \in Remote  \* slip: the setting is not asked
Timed(m)  == Armed(m)

Show(m) ==
  /\ gen' = gen + 1 /\ Invalidate /\ current' = m /\ fragment' = "text"
  /\ button' = (kind = "main" \/ button)
  /\ Render([msg |-> m, as |-> "text"])
  /\ timers' = IF Timed(m) THEN timers + 1 ELSE timers
  /\ allowed' = IF Armed(m) THEN allowed \cup {m} ELSE allowed
  /\ UNCHANGED <<ijobs, loads, fetched>>

\* _set_displayed_messages without a message; the viewer keeps what it shows.
ShowNothing ==
  /\ IF kind = "main"
     THEN /\ gen' = gen + 1 /\ Invalidate /\ current' = None /\ fragment' = "text"
          /\ body' = [msg |-> None, as |-> "empty"] /\ UNCHANGED view
     ELSE UNCHANGED <<gen, text, current, fragment, shown>>
  /\ UNCHANGED <<button, ijobs, timers, loads, allowed, fetched>>

Room == gen < MaxGen /\ tgen < MaxTGen
User == modal = None /\ view # "gone"

Select(m) ==
  /\ User /\ Room /\ m # current /\ Show(m)
  /\ UNCHANGED <<conf, modal, tjobs, folder>>

\* A row clicked, a search, or the mail of a fetch that ended: the list anew, with
\* its first message, if any; the last of them under an open dialog too.
Refresh ==
  /\ view # "gone" /\ Room /\ (ShowNothing \/ \E m \in Messages : Show(m))
  /\ UNCHANGED <<conf, modal, tjobs, folder>>

Original == /\ showing' = FALSE /\ Render([msg |-> current, as |-> fragment])

-----------------------------------------------------------------------------
(* Translation *)

Start(m) ==
  /\ tgen' = tgen + 1 /\ active' = tgen + 1
  /\ tjobs' = tjobs \cup {[gen |-> tgen + 1, msg |-> m, lang |-> prefs.lang, left |-> Chunks[m],
                           stage |-> "running"]}
  /\ UNCHANGED <<translated, showing>>

\* _translate_current_message, up to the question and after it.
Translate ==
  /\ User /\ tgen < MaxTGen /\ current # None /\ Chunks[current] > 0 /\ active = None
  /\ IF prefs.confirm
     THEN /\ modal' = [box |-> "ask", msg |-> current, expected |-> tgen] /\ UNCHANGED <<text, tjobs>>
     ELSE Start(current) /\ UNCHANGED modal
  /\ UNCHANGED <<conf, current, gen, image, shown, folder>>

Anyway(q)  == TRUE  \* slip: the generation is not compared after the question
Current(q) == q.expected = tgen /\ ~Dead

Agree ==
  /\ modal # None /\ modal.box = "ask" /\ tgen < MaxTGen /\ modal' = None
  /\ IF Current(modal) THEN Start(modal.msg) ELSE UNCHANGED <<text, tjobs>>
  /\ UNCHANGED <<conf, current, gen, image, shown, folder>>

Cancel ==
  /\ modal # None /\ modal' = None
  /\ UNCHANGED <<conf, current, gen, text, image, shown, tjobs, folder>>

\* TranslationService.translate: chunk after chunk, the first error ends it.
TranslateChunk(j) ==
  /\ j \in tjobs /\ j.stage = "running"
  /\ \E k \in {[j EXCEPT !.left = @ - 1], [j EXCEPT !.stage = "failed"]} :
       tjobs' = (tjobs \ {j}) \cup {IF k.left = 0 THEN [k EXCEPT !.stage = "translated"] ELSE k}
  /\ UNCHANGED <<conf, current, gen, text, image, shown, modal, folder>>

\* _translation_loaded and _translation_finished
Late(j) == j.gen # tgen \/ Dead
TranslationLoaded(j) ==
  /\ j \in tjobs /\ j.stage \in {"translated", "failed"}
  /\ tjobs' = (tjobs \ {j}) \cup {[j EXCEPT !.stage = "finished"]}
  /\ \/ Late(j) /\ UNCHANGED <<text, shown>>
     \/ ~Late(j) /\ j.stage = "failed" /\ active' = None /\ UNCHANGED <<tgen, translated, showing, shown>>
     \/ /\ ~Late(j) /\ j.stage = "translated" /\ active' = None /\ UNCHANGED tgen
        /\ translated' = [msg |-> j.msg, lang |-> j.lang] /\ showing' = TRUE
        /\ Render([msg |-> j.msg, as |-> "translation"])
  /\ UNCHANGED <<conf, current, gen, image, modal, folder>>

TranslationFinished(j) ==
  /\ j \in tjobs /\ j.stage = "finished" /\ tjobs' = tjobs \ {j}
  /\ active' = IF ~Late(j) /\ active = j.gen THEN None ELSE active
  /\ UNCHANGED <<conf, current, gen, tgen, translated, showing, image, shown, modal, folder>>

Toggle ==
  /\ User /\ translated # None
  /\ IF showing THEN Original
     ELSE showing' = TRUE /\ Render([msg |-> translated.msg, as |-> "translation"])
  /\ UNCHANGED <<conf, current, gen, tgen, active, translated, image, modal, tjobs, folder>>

\* _apply_translation_settings and update_translation_settings; the settings
\* dialog is not opened and closed before a timer of no delay.
Settings(p) ==
  /\ User /\ tgen < MaxTGen /\ timers = 0 /\ p # prefs /\ prefs' = p
  /\ IF p.lang = prefs.lang THEN UNCHANGED <<text, shown>>
     ELSE /\ tgen' = tgen + 1 /\ active' = None /\ translated' = None
          /\ IF showing THEN Original ELSE UNCHANGED <<showing, shown>>
  /\ UNCHANGED <<kind, auto, current, gen, image, modal, tjobs, folder>>

-----------------------------------------------------------------------------
(* Remote images *)

\* _load_remote_images: of the message shown now, whichever the timer was for.
LoadImages ==
  IF current \in Html /\ ~showing
  THEN /\ loads < MaxLoads /\ loads' = loads + 1 /\ button' = FALSE
       /\ ijobs' = ijobs \cup {[id |-> loads + 1, gen |-> gen, msg |-> current, stage |-> "running"]}
  ELSE UNCHANGED <<loads, button, ijobs>>

AutoLoad ==
  /\ timers > 0 /\ timers' = timers - 1 /\ LoadImages
  /\ UNCHANGED <<conf, current, gen, text, fragment, allowed, fetched, shown, modal, tjobs, folder>>

ClickLoad ==
  /\ User /\ button /\ current \in Remote /\ ~showing /\ LoadImages
  /\ allowed' = allowed \cup {current}
  /\ UNCHANGED <<conf, current, gen, text, fragment, timers, fetched, shown, modal, tjobs, folder>>

\* load_remote_images_for_web: what the cache, the limits and the checks of the
\* addresses leave of the images, or an exception.
Download(j) ==
  /\ j \in ijobs /\ j.stage = "running"
  /\ \E got \in {"nothing", "error"} \cup (IF j.msg \in Remote THEN {"images"} ELSE {}) :
       ijobs' = (ijobs \ {j}) \cup {[j EXCEPT !.stage = got]}
  /\ fetched' = IF j.msg \in Remote THEN fetched \cup {j.msg} ELSE fetched
  /\ UNCHANGED <<conf, current, gen, text, fragment, button, timers, loads, allowed, shown,
                 modal, tjobs, folder>>

\* _remote_images_loaded and _remote_images_finished
ImagesLoaded(j) ==
  /\ j \in ijobs /\ j.stage \in {"images", "nothing", "error"}
  /\ ijobs' = (ijobs \ {j}) \cup {[j EXCEPT !.stage = "finished"]}
  /\ IF j.gen # gen THEN UNCHANGED <<fragment, shown, button>>
     ELSE /\ fragment' = CASE j.stage = "images" -> "images" [] j.stage = "nothing" -> "text"
                           [] OTHER -> fragment
          /\ IF j.stage # "error" /\ ~showing
             THEN IF Dead THEN UNCHANGED <<shown, button>>
                  ELSE Render([msg |-> current, as |-> fragment']) /\ button' = TRUE
             ELSE button' = TRUE /\ UNCHANGED shown
  /\ UNCHANGED <<conf, current, gen, text, timers, loads, allowed, fetched, modal, tjobs, folder>>

ImagesFinished(j) ==
  /\ j \in ijobs /\ j.stage = "finished" /\ ijobs' = ijobs \ {j}
  /\ UNCHANGED <<conf, current, gen, text, fragment, button, timers, loads, allowed, fetched,
                 shown, modal, tjobs, folder>>

-----------------------------------------------------------------------------
(* Attachments *)

\* The file dialogs run while the answers of workers are handled.
AskDirectory(box) ==
  /\ User /\ current # None /\ Attachments[current] # <<>>
  /\ modal' = [box |-> box, msg |-> current, expected |-> 0]
  /\ UNCHANGED <<conf, current, gen, text, image, shown, tjobs, folder>>

\* _unique_filename: "a", "a (2)", "a (3)", ...
Unique(name, used) ==
  IF Fold[name] \notin used THEN Fold[name]
  ELSE LET n == CHOOSE k \in 2..Cardinality(used) + 2 :
                  /\ Append(Fold[name], k) \notin used
                  /\ \A i \in 2..k - 1 : Append(Fold[name], i) \in used
       IN Append(Fold[name], n)

Forgotten(used, name) == used  \* slip: names of this round are not remembered
Used(used, name)      == used \cup {name}

\* One file after the other; an attachment without its content takes no name.
NextName(w, name) ==
  LET n == Unique(name, w.used) IN [used |-> Used(w.used, n), names |-> Append(w.names, n)]

Written(files, missing, known) ==
  FoldLeftDomain(LAMBDA w, i : IF i \in missing THEN w ELSE NextName(w, files[i]),
                 [used |-> known, names |-> <<>>], files).names

\* Whether a save overwrites a file: the directory may be one that cannot be listed,
\* contents may be missing and the write of a file may fail.
Losses(files) ==
  {LET names == Written(files, missing, IF readable THEN Existing ELSE {})
   IN  readable /\ ({names[i] : i \in DOMAIN names \ failed} \cap Existing # {} \/ ~IsInjective(names)) :
     readable \in BOOLEAN, missing \in SUBSET DOMAIN files, failed \in {{}, {1}}}

SaveAll ==
  /\ modal # None /\ modal.box = "all" /\ modal' = None
  /\ \E lost \in Losses(IF current = None THEN <<>> ELSE Attachments[current]) :
       clobbered' = (clobbered \/ lost)
  /\ misfiled' = (misfiled \/ current # modal.msg)
  /\ UNCHANGED <<conf, current, gen, text, image, shown, tjobs>>

\* _save_selected_attachment: the attachment is taken before the dialog.
SaveOne ==
  /\ modal # None /\ modal.box = "one" /\ modal' = None
  /\ UNCHANGED <<conf, current, gen, text, image, shown, tjobs, folder>>

-----------------------------------------------------------------------------
\* closeEvent of the viewer, _shutdown_before_close of the main window.
Close ==
  /\ User /\ tgen < MaxTGen /\ view' = "gone" /\ tgen' = tgen + 1 /\ active' = None
  /\ UNCHANGED <<conf, current, gen, translated, showing, image, body, modal, tjobs, folder>>

Acts == \/ Open \/ Refresh \/ Translate \/ Agree \/ Cancel \/ Toggle \/ ClickLoad \/ SaveAll \/ SaveOne \/ Close
        \/ \E m \in Messages : Select(m)
        \/ \E p \in Prefs : Settings(p)
        \/ \E box \in {"one", "all"} : AskDirectory(box)
Slots == \/ AutoLoad
         \/ \E j \in tjobs : TranslateChunk(j) \/ TranslationLoaded(j) \/ TranslationFinished(j)
         \/ \E j \in ijobs : Download(j) \/ ImagesLoaded(j) \/ ImagesFinished(j)

Next == Acts \/ Slots
Spec == Init /\ [][Next]_vars /\ WF_vars(Slots)

-----------------------------------------------------------------------------
\* What a pane shows is its current message, and a translation is one of that
\* text into the language set now: no answer of a worker, and no question
\* answered late, shows something under another message.
ShowsCurrent ==
  view # "gone" =>
    /\ body.msg = current
    /\ body.as = "translation" <=> showing
    /\ translated # None => translated = [msg |-> current, lang |-> prefs.lang]

\* Images are requested from the network only for a message the user asked them
\* for, or that was opened while they were to be loaded by themselves.
ImagesOnlyAsked == fetched \subseteq allowed

\* The main window lets the user load the images of its message unless they are
\* being loaded.
Loading == \E j \in ijobs : j.gen = gen /\ j.stage # "finished"
CanAsk  == view # "gone" /\ current \in Remote => button \/ Loading

\* README.md:56, for every pane: the network images of a message can be loaded on
\* demand.  The viewer enables its button only when the answer for the message
\* still shown arrives.
ImagesOnDemand == CanAsk

\* "Save all" into a directory that can be listed overwrites nothing, whatever the
\* names of the attachments.
NothingOverwritten == ~clobbered

\* The attachments saved are those of the message they were asked for.
SavedAsAsked == ~misfiled

\* A translation that was started ends: the button comes back.
TranslationEnds == (active # None) ~> (active = None)
=============================================================================
