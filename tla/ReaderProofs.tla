---------------------------- MODULE ReaderProofs ----------------------------
(***************************************************************************)
(* What a pane shows belongs to its message, and the network is asked for  *)
(* images only as the user wants it: proved for any mail, settings and     *)
(* bounds, however late the answers of workers come.  And what is saved    *)
(* overwrites nothing, whatever the names of the attachments.              *)
(***************************************************************************)
EXTENDS Reader, FiniteSetTheorems, WellFoundedInduction, TLAPS

-----------------------------------------------------------------------------
(***************************************************************************)
(* The text.                                                               *)
(***************************************************************************)
\* The text shown, also by a pane that is closed: the late images of the main
\* window may make its view anew.
Faithful == /\ body.msg = current
            /\ body.as = "translation" <=> showing
            /\ translated # None => translated = [msg |-> current, lang |-> prefs.lang]
            /\ fragment \in {"text", "images"}

\* A translation of the present generation is one of the present message into the
\* present language; so is one that is asked about.
Generations ==
  /\ tgen \in Nat
  /\ \A j \in tjobs : /\ DOMAIN j = {"gen", "msg", "lang", "left", "stage"}
                      /\ j.gen \in Nat /\ j.gen <= tgen
                      /\ j.gen = tgen => j.msg = current /\ j.lang = prefs.lang
  /\ modal # None /\ modal.box = "ask" =>
       /\ modal.expected \in Nat /\ modal.expected <= tgen
       /\ modal.expected = tgen => modal.msg = current
  /\ view = "gone" => modal = None

TextInv == Faithful /\ Generations

LEMMA TextInit == Init => TextInv
BY DEF Init, TextInv, Faithful, Generations

\* A new generation makes the jobs and the question before it late.
LEMMA TextRenewed ==
  ASSUME TextInv, tgen' = tgen + 1, tjobs' = tjobs, modal' = modal \/ modal' = None,
         view' = "gone" => modal' = None
  PROVE  Generations'
<1>1. tgen \in Nat /\ tgen' \in Nat
  BY DEF TextInv, Generations
<1>2. \A j \in tjobs' : /\ DOMAIN j = {"gen", "msg", "lang", "left", "stage"}
                        /\ j.gen \in Nat /\ j.gen <= tgen' /\ j.gen # tgen'
  BY <1>1 DEF TextInv, Generations
<1>3. modal' # None /\ modal'.box = "ask" =>
        modal'.expected \in Nat /\ modal'.expected <= tgen' /\ modal'.expected # tgen'
  BY <1>1 DEF TextInv, Generations
<1> QED BY <1>1, <1>2, <1>3 DEF Generations

\* The message, the language and the generation stay, and so do the jobs.
Alike(j, k) == DOMAIN j = DOMAIN k /\ j.gen = k.gen /\ j.msg = k.msg /\ j.lang = k.lang

LEMMA TextSteady ==
  ASSUME TextInv, UNCHANGED <<tgen, current>>, prefs'.lang = prefs.lang,
         \A j \in tjobs' : \E k \in tjobs : Alike(j, k),
         modal' = modal \/ modal' = None \/ modal'.box # "ask"
             \/ (modal'.expected = tgen /\ modal'.msg = current),
         view' = "gone" => modal' = None
  PROVE  Generations'
<1>1. tgen \in Nat /\ tgen' \in Nat
  BY DEF TextInv, Generations
<1>2. ASSUME NEW j \in tjobs'
      PROVE  /\ DOMAIN j = {"gen", "msg", "lang", "left", "stage"}
             /\ j.gen \in Nat /\ j.gen <= tgen
             /\ j.gen = tgen => j.msg = current /\ j.lang = prefs.lang
  <2>1. PICK k \in tjobs : Alike(j, k)
    OBVIOUS
  <2> QED BY <2>1 DEF Alike, TextInv, Generations
<1>3. modal' # None /\ modal'.box = "ask" =>
        /\ modal'.expected \in Nat /\ modal'.expected <= tgen
        /\ modal'.expected = tgen => modal'.msg = current
  <2>1. CASE modal' = modal
    BY <2>1 DEF TextInv, Generations
  <2>2. CASE modal' = None \/ modal'.box # "ask"
    BY <2>2
  <2>3. CASE modal'.expected = tgen /\ modal'.msg = current
    BY <2>3, <1>1
  <2> QED BY <2>1, <2>2, <2>3
<1> QED BY <1>1, <1>2, <1>3 DEF Generations

LEMMA TextShows ==
  ASSUME TextInv, (\E m \in Messages : Show(m)) \/ ShowNothing, UNCHANGED <<conf, tjobs, modal>>,
         view # "gone"
  PROVE  TextInv'
<1> USE DEF conf, text, image, shown
<1>1. CASE \E m \in Messages : Show(m)
  <2>1. tgen' = tgen + 1 /\ view' = "alive"
    BY <1>1 DEF Show, Invalidate, Render
  <2>2. Generations'
    BY <2>1, TextRenewed
  <2>3. Faithful'
    BY <1>1 DEF Show, Invalidate, Render, Faithful
  <2> QED BY <2>2, <2>3 DEF TextInv
<1>2. CASE ShowNothing /\ kind = "main"
  <2>1. tgen' = tgen + 1 /\ view' = view
    BY <1>2 DEF ShowNothing, Invalidate
  <2>2. Generations'
    BY <2>1, TextRenewed
  <2>3. Faithful'
    BY <1>2 DEF ShowNothing, Invalidate, Faithful
  <2> QED BY <2>2, <2>3 DEF TextInv
<1>3. CASE ShowNothing /\ kind # "main"
  BY <1>3 DEF ShowNothing, TextInv, Faithful, Generations
<1> QED BY <1>1, <1>2, <1>3

\* A job that is started has the new generation.
LEMMA TextStarts ==
  ASSUME TextInv, Start(current), UNCHANGED <<conf, current, image, shown>>, modal' = None
  PROVE  TextInv'
<1> USE DEF conf, text, image, shown
<1>1. tgen \in Nat /\ tgen' = tgen + 1 /\ tgen' \in Nat
  BY DEF Start, TextInv, Generations
<1>2. PICK k : /\ tjobs' = tjobs \cup {k}
               /\ k = [gen |-> tgen + 1, msg |-> current, lang |-> prefs.lang,
                       left |-> Chunks[current], stage |-> "running"]
  BY DEF Start
<1>3. Generations'
  BY <1>1, <1>2 DEF TextInv, Generations
<1>4. Faithful'
  BY DEF Start, TextInv, Faithful
<1> QED BY <1>3, <1>4 DEF TextInv

LEMMA TextActs == ASSUME TextInv, Acts PROVE TextInv'
<1> USE DEF conf, text, image, shown
<1>1. CASE Open
  BY <1>1 DEF Open, TextInv, Faithful, Generations
<1>2. CASE Refresh \/ \E m \in Messages : Select(m)
  BY <1>2, TextShows DEF Refresh, Select, User
<1>3. CASE Translate
  <2>1. CASE Start(current) /\ UNCHANGED modal
    BY <1>3, <2>1, TextStarts DEF Translate, User
  <2>2. CASE modal' = [box |-> "ask", msg |-> current, expected |-> tgen] /\ UNCHANGED <<text, tjobs>>
    <3>1. Generations'
      BY <1>3, <2>2, TextSteady DEF Alike, Translate, User
    <3>2. Faithful'
      BY <1>3, <2>2 DEF Translate, TextInv, Faithful
    <3> QED BY <3>1, <3>2 DEF TextInv
  <2> QED BY <1>3, <2>1, <2>2 DEF Translate
<1>4. CASE Agree
  <2>1. CASE Current(modal)
    <3>1. modal.msg = current
      BY <1>4, <2>1 DEF Agree, Current, TextInv, Generations
    <3> QED BY <1>4, <2>1, <3>1, TextStarts DEF Agree
  <2>2. CASE ~Current(modal)
    <3>1. Generations'
      BY <1>4, <2>2, TextSteady DEF Alike, Agree
    <3>2. Faithful'
      BY <1>4, <2>2 DEF Agree, TextInv, Faithful
    <3> QED BY <3>1, <3>2 DEF TextInv
  <2> QED BY <2>1, <2>2
<1>5. CASE Cancel \/ SaveAll \/ SaveOne \/ \E box \in {"one", "all"} : AskDirectory(box)
  <2>1. UNCHANGED <<current, tgen, translated, showing, fragment, body, view, tjobs, prefs>>
    BY <1>5 DEF Cancel, SaveAll, SaveOne, AskDirectory
  <2>2. modal' = None \/ (modal'.box # "ask" /\ view # "gone")
    <3>1. CASE Cancel \/ SaveAll \/ SaveOne
      BY <3>1 DEF Cancel, SaveAll, SaveOne
    <3>2. ASSUME NEW box \in {"one", "all"}, AskDirectory(box)
          PROVE  modal'.box # "ask" /\ view # "gone"
      <4>1. modal' = [box |-> box, msg |-> current, expected |-> 0] /\ view # "gone"
        BY <3>2 DEF AskDirectory, User
      <4> QED BY <4>1
    <3> QED BY <1>5, <3>1, <3>2
  <2>3. Generations'
    BY <2>1, <2>2, TextSteady DEF Alike
  <2>4. Faithful'
    BY <2>1 DEF TextInv, Faithful
  <2> QED BY <2>3, <2>4 DEF TextInv
<1>6. CASE Toggle
  <2>1. Generations'
    BY <1>6, TextSteady DEF Alike, Toggle, Original, Render, User
  <2>2. Faithful'
    BY <1>6 DEF Toggle, Original, Render, TextInv, Faithful
  <2> QED BY <2>1, <2>2 DEF TextInv
<1>7. CASE ClickLoad
  <2>1. UNCHANGED <<current, tgen, translated, showing, fragment, body, view, tjobs, prefs, modal>>
    BY <1>7 DEF ClickLoad
  <2> QED BY <2>1 DEF TextInv, Faithful, Generations
<1>8. CASE Close
  <2>1. Generations'
    BY <1>8, TextRenewed DEF Close, User
  <2>2. Faithful'
    BY <1>8 DEF Close, TextInv, Faithful
  <2> QED BY <2>1, <2>2 DEF TextInv
<1>9. ASSUME NEW p \in Prefs, Settings(p) PROVE TextInv'
  <2>1. CASE p.lang = prefs.lang
    <3>1. Generations'
      BY <1>9, <2>1, TextSteady DEF Alike, Settings, User
    <3>2. Faithful'
      BY <1>9, <2>1 DEF Settings, TextInv, Faithful
    <3> QED BY <3>1, <3>2 DEF TextInv
  <2>2. CASE p.lang # prefs.lang
    <3>1. Generations'
      BY <1>9, <2>2, TextRenewed DEF Settings, User, Original, Render
    <3>2. Faithful'
      BY <1>9, <2>2 DEF Settings, Original, Render, TextInv, Faithful
    <3> QED BY <3>1, <3>2 DEF TextInv
  <2> QED BY <2>1, <2>2
<1> QED BY <1>1, <1>2, <1>3, <1>4, <1>5, <1>6, <1>7, <1>8, <1>9 DEF Acts

LEMMA TextSlots == ASSUME TextInv, Slots PROVE TextInv'
<1> USE DEF conf, text, image, shown
<1>1. ASSUME UNCHANGED <<current, tgen, translated, showing, fragment, body, view, tjobs, prefs, modal>>
      PROVE  TextInv'
  BY <1>1 DEF TextInv, Faithful, Generations
<1>2. CASE AutoLoad
  BY <1>1, <1>2 DEF AutoLoad
<1>3. ASSUME NEW j, TranslateChunk(j) PROVE TextInv'
  <2>1. Faithful'
    BY <1>3 DEF TranslateChunk, TextInv, Faithful
  <2>2. \A i \in tjobs' : \E h \in tjobs : Alike(i, h)
    <3>1. DOMAIN j = {"gen", "msg", "lang", "left", "stage"} /\ j \in tjobs
      BY <1>3 DEF TranslateChunk, TextInv, Generations
    <3>2. PICK k \in {[j EXCEPT !.left = @ - 1], [j EXCEPT !.stage = "failed"]} :
            tjobs' = (tjobs \ {j}) \cup {IF k.left = 0 THEN [k EXCEPT !.stage = "translated"] ELSE k}
      BY <1>3 DEF TranslateChunk
    <3>3. Alike(k, j) /\ DOMAIN k = {"gen", "msg", "lang", "left", "stage"}
      BY <3>1, <3>2 DEF Alike
    <3>4. Alike([k EXCEPT !.stage = "translated"], k)
      BY <3>3 DEF Alike
    <3>5. Alike(IF k.left = 0 THEN [k EXCEPT !.stage = "translated"] ELSE k, j)
      BY <3>3, <3>4 DEF Alike
    <3>6. \A i \in tjobs : Alike(i, i)
      BY DEF Alike
    <3> QED BY <3>1, <3>2, <3>5, <3>6
  <2>3. Generations'
    BY <1>3, <2>2, TextSteady DEF TranslateChunk, TextInv, Generations
  <2> QED BY <2>1, <2>3 DEF TextInv
<1>4. ASSUME NEW j, TranslationLoaded(j) PROVE TextInv'
  <2>1. /\ j \in tjobs /\ DOMAIN j = {"gen", "msg", "lang", "left", "stage"}
        /\ j.gen = tgen => j.msg = current /\ j.lang = prefs.lang
    BY <1>4 DEF TranslationLoaded, TextInv, Generations
  <2>2. Alike([j EXCEPT !.stage = "finished"], j) /\ \A i \in tjobs : Alike(i, i)
    BY <2>1 DEF Alike
  <2>3. UNCHANGED <<tgen, current, prefs, modal, fragment>> /\ (view' = view \/ view' = "alive")
    BY <1>4 DEF TranslationLoaded, Render
  <2>4. Generations'
    BY <1>4, <2>1, <2>2, <2>3, TextSteady DEF TranslationLoaded, TextInv, Generations
  <2>5. Faithful'
    BY <1>4, <2>1, <2>3 DEF TranslationLoaded, Late, Render, TextInv, Faithful
  <2> QED BY <2>4, <2>5 DEF TextInv
<1>5. ASSUME NEW j, TranslationFinished(j) PROVE TextInv'
  <2>1. Faithful'
    BY <1>5 DEF TranslationFinished, TextInv, Faithful
  <2>2. Generations'
    BY <1>5 DEF TranslationFinished, TextInv, Generations
  <2> QED BY <2>1, <2>2 DEF TextInv
<1>6. ASSUME NEW j, Download(j) \/ ImagesFinished(j) PROVE TextInv'
  BY <1>1, <1>6 DEF Download, ImagesFinished
<1>7. ASSUME NEW j, ImagesLoaded(j) PROVE TextInv'
  <2>1. /\ UNCHANGED <<tgen, current, prefs, modal, translated, showing, tjobs>>
        /\ view' = view \/ view' = "alive"
    BY <1>7 DEF ImagesLoaded, Render
  <2>2. fragment' \in {"text", "images"}
    BY <1>7 DEF ImagesLoaded, TextInv, Faithful
  <2>3. UNCHANGED body \/ (~showing /\ body' = [msg |-> current, as |-> fragment'])
    BY <1>7 DEF ImagesLoaded, Render
  <2>4. Faithful'
    BY <2>1, <2>2, <2>3 DEF TextInv, Faithful
  <2>5. Generations'
    BY <2>1 DEF TextInv, Generations
  <2> QED BY <2>4, <2>5 DEF TextInv
<1> QED BY <1>2, <1>3, <1>4, <1>5, <1>6, <1>7 DEF Slots

\* The slots of the pane and of the viewer: no late answer shows anything under
\* another message, or in another language than the one that is set.
THEOREM ShownHolds == Spec => []ShowsCurrent
<1>1. TextInv /\ [Next]_vars => TextInv'
  <2>1. ASSUME TextInv, UNCHANGED vars PROVE TextInv'
    BY <2>1 DEF vars, conf, text, image, shown, TextInv, Faithful, Generations
  <2> QED BY <2>1, TextActs, TextSlots DEF Next
<1>2. TextInv => ShowsCurrent
  BY DEF TextInv, Faithful, ShowsCurrent
<1> QED BY TextInit, <1>1, <1>2, PTL DEF Spec

-----------------------------------------------------------------------------
(***************************************************************************)
(* The images.                                                             *)
(***************************************************************************)
\* A timer pending and a job are for a message without images or one whose images
\* are wanted, although the timer takes the message that is shown when it fires.
Wanted(m) == m \in Remote => m \in allowed

ImageInv ==
  /\ timers \in Nat
  /\ timers > 0 => AutoLoads /\ Wanted(current)
  /\ \A j \in ijobs : DOMAIN j = {"id", "gen", "msg", "stage"} /\ Wanted(j.msg)
  /\ fetched \subseteq allowed

LEMMA ImageInit == Init => ImageInv
BY DEF Init, ImageInv

\* Nothing the images depend on but the message, which is none.
LEMMA ImageSteady ==
  ASSUME ImageInv, UNCHANGED <<conf, timers, ijobs, allowed, fetched>>, current' \in {current, None}
  PROVE  ImageInv'
<1>1. None \notin Remote
  BY ReaderAssumption
<1>2. timers' > 0 => AutoLoads' /\ Wanted(current)'
  BY <1>1 DEF ImageInv, AutoLoads, Wanted, conf
<1>3. \A j \in ijobs' : DOMAIN j = {"id", "gen", "msg", "stage"} /\ Wanted(j.msg)'
  BY DEF ImageInv, Wanted
<1> QED BY <1>2, <1>3 DEF ImageInv

LEMMA ImageShows ==
  ASSUME ImageInv, NEW m \in Messages, Show(m), UNCHANGED conf
  PROVE  ImageInv'
<1>1. /\ current' = m /\ UNCHANGED <<ijobs, fetched, kind, prefs, auto>>
      /\ timers' = IF Armed(m) THEN timers + 1 ELSE timers
      /\ allowed' = IF Armed(m) THEN allowed \cup {m} ELSE allowed
  BY DEF Show, Timed, conf
<1>2. timers' \in Nat /\ allowed \subseteq allowed'
  BY <1>1 DEF ImageInv
<1>3. timers' > 0 => AutoLoads' /\ Wanted(current)'
  <2>1. AutoLoads' <=> AutoLoads
    BY <1>1 DEF AutoLoads
  <2>2. CASE Armed(m)
    BY <1>1, <2>1, <2>2 DEF Armed, Wanted
  <2>3. CASE ~Armed(m)
    BY <1>1, <2>1, <2>3 DEF Armed, Wanted, ImageInv
  <2> QED BY <2>2, <2>3
<1>4. \A j \in ijobs' : DOMAIN j = {"id", "gen", "msg", "stage"} /\ Wanted(j.msg)'
  BY <1>1, <1>2 DEF ImageInv, Wanted
<1> QED BY <1>1, <1>2, <1>3, <1>4 DEF ImageInv

LEMMA ImageLoads ==
  ASSUME ImageInv, LoadImages, UNCHANGED <<conf, current, fetched>>,
         allowed \subseteq allowed', Wanted(current)', fetched \subseteq allowed',
         timers' \in Nat, timers' <= timers
  PROVE  ImageInv'
<1>1. timers' > 0 => AutoLoads' /\ Wanted(current)'
  <2>1. timers' > 0 => timers > 0
    BY DEF ImageInv
  <2>2. AutoLoads' <=> AutoLoads
    BY DEF AutoLoads, conf
  <2> QED BY <2>1, <2>2 DEF ImageInv
<1>2. \A j \in ijobs : DOMAIN j = {"id", "gen", "msg", "stage"} /\ Wanted(j.msg)'
  BY DEF ImageInv, Wanted
<1>3. \A j \in ijobs' : DOMAIN j = {"id", "gen", "msg", "stage"} /\ Wanted(j.msg)'
  <2>1. CASE UNCHANGED ijobs
    BY <2>1, <1>2
  <2>2. CASE ijobs' = ijobs \cup {[id |-> loads + 1, gen |-> gen, msg |-> current, stage |-> "running"]}
    <3>1. Wanted(current)' <=> (current \in Remote => current \in allowed')
      BY DEF Wanted
    <3> QED BY <2>2, <1>2, <3>1 DEF Wanted
  <2> QED BY <2>1, <2>2 DEF LoadImages
<1> QED BY <1>1, <1>3 DEF ImageInv

\* A job that goes on asks for the same message.
LEMMA ImageJobs ==
  ASSUME ImageInv, UNCHANGED <<conf, current, timers, allowed>>, fetched' \subseteq allowed,
         \A j \in ijobs' : \E k \in ijobs : DOMAIN j = DOMAIN k /\ j.msg = k.msg
  PROVE  ImageInv'
<1>1. timers' > 0 => AutoLoads' /\ Wanted(current)'
  BY DEF ImageInv, AutoLoads, Wanted, conf
<1>2. ASSUME NEW j \in ijobs'
      PROVE  DOMAIN j = {"id", "gen", "msg", "stage"} /\ Wanted(j.msg)'
  <2>1. PICK k \in ijobs : DOMAIN j = DOMAIN k /\ j.msg = k.msg
    OBVIOUS
  <2> QED BY <2>1 DEF ImageInv, Wanted
<1> QED BY <1>1, <1>2 DEF ImageInv

LEMMA ImageActs == ASSUME ImageInv, Acts PROVE ImageInv'
<1> USE DEF conf, image
<1>1. CASE Open
  BY <1>1 DEF Open, ImageInv
<1>2. ASSUME NEW m \in Messages, Show(m), UNCHANGED conf PROVE ImageInv'
  BY <1>2, ImageShows
<1>3. CASE Refresh
  <2>1. CASE ShowNothing
    BY <1>3, <2>1, ImageSteady DEF Refresh, ShowNothing
  <2> QED BY <1>3, <2>1, <1>2 DEF Refresh
<1>4. CASE \E m \in Messages : Select(m)
  BY <1>4, <1>2 DEF Select
<1>5. CASE Translate \/ Agree \/ Cancel \/ Toggle
  BY <1>5, ImageSteady DEF Translate, Agree, Cancel, Toggle
<1>6. CASE SaveAll \/ SaveOne \/ Close \/ \E box \in {"one", "all"} : AskDirectory(box)
  BY <1>6, ImageSteady DEF SaveAll, SaveOne, Close, AskDirectory
<1>7. CASE ClickLoad
  <2>1. /\ LoadImages /\ UNCHANGED <<conf, current, timers, fetched>>
        /\ allowed' = allowed \cup {current}
    BY <1>7 DEF ClickLoad
  <2>2. Wanted(current)' /\ allowed \subseteq allowed'
    BY <2>1 DEF Wanted
  <2>3. timers' \in Nat /\ timers' <= timers /\ fetched \subseteq allowed'
    BY <2>1 DEF ImageInv
  <2> QED BY <2>1, <2>2, <2>3, ImageLoads
<1>8. ASSUME NEW p \in Prefs, Settings(p) PROVE ImageInv'
  <2>1. timers = 0 /\ UNCHANGED <<timers, ijobs, allowed, fetched>>
    BY <1>8 DEF Settings
  <2>2. \A j \in ijobs' : DOMAIN j = {"id", "gen", "msg", "stage"} /\ Wanted(j.msg)'
    BY <2>1 DEF ImageInv, Wanted
  <2> QED BY <2>1, <2>2 DEF ImageInv
<1> QED BY <1>1, <1>3, <1>4, <1>5, <1>6, <1>7, <1>8 DEF Acts

LEMMA ImageSlots == ASSUME ImageInv, Slots PROVE ImageInv'
<1> USE DEF conf
<1>1. CASE AutoLoad
  <2>1. /\ LoadImages /\ UNCHANGED <<conf, current, fetched, allowed>>
        /\ timers > 0 /\ timers' = timers - 1
    BY <1>1 DEF AutoLoad
  <2>2. Wanted(current)' /\ allowed \subseteq allowed' /\ fetched \subseteq allowed'
    BY <2>1 DEF ImageInv, Wanted
  <2>3. timers' \in Nat /\ timers' <= timers
    BY <2>1 DEF ImageInv
  <2> QED BY <2>1, <2>2, <2>3, ImageLoads
<1>2. ASSUME NEW j, TranslateChunk(j) \/ TranslationLoaded(j) \/ TranslationFinished(j) PROVE ImageInv'
  BY <1>2, ImageSteady DEF TranslateChunk, TranslationLoaded, TranslationFinished, image
<1>3. ASSUME NEW j, Download(j) \/ ImagesLoaded(j) PROVE ImageInv'
  <2>1. j \in ijobs /\ DOMAIN j = {"id", "gen", "msg", "stage"} /\ Wanted(j.msg)
    BY <1>3 DEF Download, ImagesLoaded, ImageInv
  <2>2. PICK got : ijobs' = (ijobs \ {j}) \cup {[j EXCEPT !.stage = got]}
    BY <1>3 DEF Download, ImagesLoaded
  <2>3. \A k \in ijobs' : \E i \in ijobs : DOMAIN k = DOMAIN i /\ k.msg = i.msg
    <3>1. DOMAIN [j EXCEPT !.stage = got] = DOMAIN j /\ [j EXCEPT !.stage = got].msg = j.msg
      BY <2>1
    <3> QED BY <2>1, <2>2, <3>1
  <2>4. UNCHANGED <<conf, current, timers, allowed>>
    BY <1>3 DEF Download, ImagesLoaded
  <2>5. fetched' \subseteq allowed
    BY <1>3, <2>1 DEF Download, ImagesLoaded, ImageInv, Wanted
  <2> QED BY <2>3, <2>4, <2>5, ImageJobs
<1>4. ASSUME NEW j, ImagesFinished(j) PROVE ImageInv'
  <2>1. ijobs' \subseteq ijobs /\ UNCHANGED <<conf, current, timers, allowed, fetched>>
    BY <1>4 DEF ImagesFinished
  <2>2. fetched' \subseteq allowed
    BY <2>1 DEF ImageInv
  <2> QED BY <2>1, <2>2, ImageJobs
<1> QED BY <1>1, <1>2, <1>3, <1>4 DEF Slots

\* The timer of the main window and of the viewer, their button and the workers of
\* either: no image is requested from the network for a message nobody wanted.
THEOREM AskedHolds == Spec => []ImagesOnlyAsked
<1>1. ImageInv /\ [Next]_vars => ImageInv'
  <2>1. ASSUME ImageInv, UNCHANGED vars PROVE ImageInv'
    BY <2>1, ImageSteady DEF vars, conf, image
  <2> QED BY <2>1, ImageActs, ImageSlots DEF Next
<1>2. ImageInv => ImagesOnlyAsked
  BY DEF ImageInv, ImagesOnlyAsked
<1> QED BY ImageInit, <1>1, <1>2, PTL DEF Spec

-----------------------------------------------------------------------------
(***************************************************************************)
(* The names of the files saved.  What a loop over the attachments keeps   *)
(* is proved along the sequence: a set of numbers with 0 and with each     *)
(* number's successor holds them all, as a least number outside would have *)
(* a predecessor inside.                                                   *)
(***************************************************************************)
LEMMA Upwards ==
  ASSUME NEW T, 0 \in T, \A n \in Nat : n \in T => n + 1 \in T
  PROVE  Nat \subseteq T
<1> SUFFICES ASSUME ~(Nat \subseteq T) PROVE FALSE
  OBVIOUS
<1> DEFINE U == Nat \ T
<1>1. U \subseteq Nat /\ U # {}
  OBVIOUS
<1>2. PICK x \in U : \A y \in U : <<y, x>> \notin OpToRel(<, Nat)
  BY <1>1, NatLessThanWellFounded, WFMin
<1>3. x \in Nat /\ x \notin T /\ x # 0
  BY <1>2
<1>4. x - 1 \in Nat /\ x - 1 < x /\ (x - 1) + 1 = x
  BY <1>3
<1>5. <<x - 1, x>> \in OpToRel(<, Nat)
  BY <1>3, <1>4 DEF OpToRel
<1>6. x - 1 \in T
  BY <1>2, <1>4, <1>5
<1> QED BY <1>3, <1>4, <1>6

\* Of finitely many numbers one is the largest.
LEMMA Largest ==
  ASSUME NEW n \in Nat, NEW s \in SUBSET (0..n), s # {}
  PROVE  Max(s) \in s /\ \A y \in s : y <= Max(s)
<1> DEFINE T == {k \in Nat : \A r \in SUBSET (0..k) : r # {} => \E x \in r : \A y \in r : x >= y}
<1>1. 0 \in T
  <2>1. ASSUME NEW r \in SUBSET (0..0), r # {} PROVE \E x \in r : \A y \in r : x >= y
    <3>1. \A y \in r : y = 0
      OBVIOUS
    <3>2. 0 \in r
      BY <2>1, <3>1
    <3> QED BY <3>1, <3>2
  <2> QED BY <2>1
<1>2. ASSUME NEW k \in Nat, k \in T PROVE k + 1 \in T
  <2> SUFFICES ASSUME NEW r \in SUBSET (0..(k + 1)), r # {}
               PROVE  \E x \in r : \A y \in r : x >= y
    OBVIOUS
  <2>1. CASE k + 1 \in r
    BY <2>1
  <2>2. CASE k + 1 \notin r
    <3>1. r \in SUBSET (0..k)
      BY <2>2
    <3> QED BY <1>2, <3>1
  <2> QED BY <2>1, <2>2
<1> HIDE DEF T
<1>3. n \in T
  BY <1>1, <1>2, Upwards
<1>4. \E x \in s : \A y \in s : x >= y
  BY <1>3 DEF T
<1>5. Max(s) \in s /\ \A y \in s : Max(s) >= y
  BY <1>4 DEF Max
<1>6. \A y \in s : y \in Nat
  OBVIOUS
<1> QED BY <1>5, <1>6

\* What is left of a set of numbers up to k + 1 without its largest.
LEMMA WithoutLargest ==
  ASSUME NEW k \in Nat, NEW s \in SUBSET (1..(k + 1)), s # {}
  PROVE  Max(s) \in s /\ s \ {Max(s)} \in SUBSET (1..k)
<1>1. PICK n \in Nat : n = k + 1 /\ s \in SUBSET (0..n)
  OBVIOUS
<1>2. Max(s) \in s /\ \A y \in s : y <= Max(s)
  BY <1>1, Largest
<1>3. ASSUME NEW y \in s, y # Max(s) PROVE y \in 1..k
  <2>1. y \in 1..(k + 1) /\ Max(s) \in 1..(k + 1) /\ y <= Max(s)
    BY <1>2
  <2>2. y < k + 1
    BY <1>3, <2>1
  <2> QED BY <2>1, <2>2
<1> QED BY <1>2, <1>3

\* What the attachment i makes of the names, and all attachments one after another.
Taken(missing, files, w, i) == IF i \in missing THEN w ELSE NextName(w, files[i])

Kept(missing, files, base) ==
  FoldLeftDomain(LAMBDA w, i : IF i \in missing THEN w ELSE NextName(w, files[i]), base, files)

\* g is the fold over the attachments of s.
Folds(g, n, missing, files, base) ==
  g = [s \in SUBSET (1..n) |-> IF s = {} THEN base
                               ELSE Taken(missing, files, g[s \ {Max(s)}], Max(s))]

LEMMA FoldExists ==
  ASSUME NEW n \in Nat, NEW missing, NEW files, NEW base
  PROVE  \E g : Folds(g, n, missing, files, base)
<1> DEFINE T == {k \in Nat : \E g : Folds(g, k, missing, files, base)}
<1>1. 0 \in T
  <2>1. SUBSET (1..0) = {{}}
    OBVIOUS
  <2>2. PICK g : g = [s \in SUBSET (1..0) |-> base]
    OBVIOUS
  <2>3. Folds(g, 0, missing, files, base)
    BY <2>1, <2>2 DEF Folds
  <2> QED BY <2>3
<1>2. ASSUME NEW k \in Nat, k \in T PROVE k + 1 \in T
  <2>1. PICK g : Folds(g, k, missing, files, base)
    BY <1>2
  <2>2. PICK h : h = [s \in SUBSET (1..(k + 1)) |->
                        IF s = {} THEN base ELSE Taken(missing, files, g[s \ {Max(s)}], Max(s))]
    OBVIOUS
  <2>3. ASSUME NEW s \in SUBSET (1..k) PROVE h[s] = g[s]
    <3>1. s \in SUBSET (1..(k + 1))
      OBVIOUS
    <3>2. g[s] = IF s = {} THEN base ELSE Taken(missing, files, g[s \ {Max(s)}], Max(s))
      BY <2>1 DEF Folds
    <3>3. h[s] = IF s = {} THEN base ELSE Taken(missing, files, g[s \ {Max(s)}], Max(s))
      BY <2>2, <3>1
    <3> QED BY <3>2, <3>3
  <2>4. ASSUME NEW s \in SUBSET (1..(k + 1))
        PROVE  h[s] = IF s = {} THEN base ELSE Taken(missing, files, h[s \ {Max(s)}], Max(s))
    <3>1. CASE s = {}
      BY <2>2, <3>1
    <3>2. CASE s # {}
      <4>1. s \ {Max(s)} \in SUBSET (1..k)
        BY <3>2, WithoutLargest
      <4>2. h[s \ {Max(s)}] = g[s \ {Max(s)}]
        BY <2>3, <4>1
      <4>3. h[s] = Taken(missing, files, g[s \ {Max(s)}], Max(s))
        BY <2>2, <3>2
      <4> QED BY <3>2, <4>2, <4>3
    <3> QED BY <3>1, <3>2
  <2>5. h = [s \in SUBSET (1..(k + 1)) |->
               IF s = {} THEN base ELSE Taken(missing, files, h[s \ {Max(s)}], Max(s))]
    <3>1. \A s \in SUBSET (1..(k + 1)) :
            h[s] = IF s = {} THEN base ELSE Taken(missing, files, h[s \ {Max(s)}], Max(s))
      BY <2>4
    <3> QED BY <2>2, <3>1
  <2>6. Folds(h, k + 1, missing, files, base)
    BY <2>5 DEF Folds
  <2> QED BY <2>6
<1> HIDE DEF T
<1>3. n \in T
  BY <1>1, <1>2, Upwards
<1> QED BY <1>3 DEF T

\* A save gives the attachments their names in order.
LEMMA SaveSteps ==
  ASSUME NEW S, NEW files \in Seq(S), NEW missing, NEW base
  PROVE  \E f : /\ f[0] = base /\ f[Len(files)] = Kept(missing, files, base)
                /\ \A k \in Nat : k < Len(files) => f[k + 1] = Taken(missing, files, f[k], k + 1)
<1> DEFINE n == Len(files)
           E(g) == g = [s \in SUBSET DOMAIN [i \in DOMAIN files |-> i] |->
                          IF s = {} THEN base
                          ELSE IF [i \in DOMAIN files |-> i][Max(s)] \in missing
                               THEN g[s \ {Max(s)}]
                               ELSE NextName(g[s \ {Max(s)}], files[[i \in DOMAIN files |-> i][Max(s)]])]
<1>1. Kept(missing, files, base) = (CHOOSE g : E(g))[DOMAIN [i \in DOMAIN files |-> i]]
  BY DEF Kept, FoldLeftDomain, FoldLeft, MapThenFoldSet
<1>2. n \in Nat /\ DOMAIN files = 1..n /\ DOMAIN [i \in DOMAIN files |-> i] = 1..n
  OBVIOUS
<1>3. PICK g : Folds(g, n, missing, files, base)
  BY <1>2, FoldExists
<1>4. ASSUME NEW s \in SUBSET (1..n), s # {} PROVE [i \in DOMAIN files |-> i][Max(s)] = Max(s)
  <2>1. s \in SUBSET (0..n)
    OBVIOUS
  <2> QED BY <1>2, <1>4, <2>1, Largest
<1>5. ASSUME NEW h PROVE E(h) <=> Folds(h, n, missing, files, base)
  <2> DEFINE L(s) == IF s = {} THEN base
                     ELSE IF [i \in DOMAIN files |-> i][Max(s)] \in missing
                          THEN h[s \ {Max(s)}]
                          ELSE NextName(h[s \ {Max(s)}], files[[i \in DOMAIN files |-> i][Max(s)]])
             R(s) == IF s = {} THEN base ELSE Taken(missing, files, h[s \ {Max(s)}], Max(s))
  <2>1. ASSUME NEW s \in SUBSET (1..n) PROVE L(s) = R(s)
    BY <1>4 DEF Taken
  <2>2. E(h) <=> h = [s \in SUBSET (1..n) |-> L(s)]
    BY <1>2
  <2>3. Folds(h, n, missing, files, base) <=> h = [s \in SUBSET (1..n) |-> R(s)]
    BY DEF Folds
  <2> HIDE DEF L, R
  <2>4. [s \in SUBSET (1..n) |-> L(s)] = [s \in SUBSET (1..n) |-> R(s)]
    BY <2>1
  <2> HIDE DEF E
  <2> QED BY <2>2, <2>3, <2>4
<1>6. PICK c : Folds(c, n, missing, files, base) /\ Kept(missing, files, base) = c[1..n]
  <2>1. E(g)
    BY <1>3, <1>5
  <2> HIDE DEF E
  <2>2. E(CHOOSE h : E(h))
    BY <2>1
  <2>3. Folds(CHOOSE h : E(h), n, missing, files, base)
    BY <1>5, <2>2
  <2> QED BY <1>1, <1>2, <2>3
<1>7. PICK f : f = [k \in Nat |-> c[1..k]]
  OBVIOUS
<1>8. f[0] = base /\ f[n] = Kept(missing, files, base)
  <2>1. 1..0 = {} /\ {} \in SUBSET (1..n)
    OBVIOUS
  <2>2. c[{}] = base
    BY <1>6, <2>1 DEF Folds
  <2> QED BY <1>2, <1>6, <1>7, <2>1, <2>2
<1>9. ASSUME NEW k \in Nat, k < n PROVE f[k + 1] = Taken(missing, files, f[k], k + 1)
  <2> DEFINE s == 1..(k + 1)
  <2>1. s \in SUBSET (1..n) /\ s # {} /\ k + 1 \in s /\ k + 1 \in Nat
    <3>1. k + 1 \in Nat /\ k + 1 <= n /\ k + 1 \in s
      BY <1>2, <1>9
    <3>2. \A y \in 1..(k + 1) : y \in 1..n
      BY <1>2, <3>1
    <3> QED BY <3>1, <3>2
  <2>2. Max(s) \in s /\ k + 1 <= Max(s)
    <3>1. s \in SUBSET (0..n)
      BY <2>1
    <3> QED BY <1>2, <2>1, <3>1, Largest
  <2>3. Max(s) = k + 1
    BY <2>2
  <2>4. s \ {k + 1} = 1..k
    OBVIOUS
  <2> HIDE DEF s
  <2>5. c[s] = Taken(missing, files, c[s \ {Max(s)}], Max(s))
    BY <1>6, <2>1 DEF Folds
  <2>6. f[k + 1] = c[s] /\ f[k] = c[1..k]
    BY <1>7, <2>1 DEF s
  <2> QED BY <2>3, <2>4, <2>5, <2>6
<1> HIDE DEF n
<1> QED BY <1>8, <1>9 DEF n

\* The counter of _unique_filename ends at a name that is not in use.
LEMMA FreeName ==
  ASSUME NEW used, IsFiniteSet(used), NEW name \in DOMAIN Fold
  PROVE  Unique(name, used) \notin used
<1> DEFINE s == Fold[name]
           n == Cardinality(used)
           F == {k \in 2..n + 2 : Append(s, k) \notin used}
<1>1. CASE s \notin used
  BY <1>1 DEF Unique
<1>2. CASE s \in used
  <2>1. s \in Seq(Stems \cup Nat)
    BY ReaderAssumption
  <2>2. n \in Nat
    BY FS_CardinalityType
  <2> HIDE DEF s, n
  <2>3. ASSUME NEW x \in 2..n + 2, NEW y \in 2..n + 2, Append(s, x) = Append(s, y) PROVE x = y
    <3>1. x \in Stems \cup Nat /\ y \in Stems \cup Nat
      BY <2>2
    <3>2. Append(s, x)[Len(s) + 1] = x /\ Append(s, y)[Len(s) + 1] = y
      BY <2>1, <3>1
    <3> QED BY <2>3, <3>2
  <2>4. \E k \in 2..n + 2 : Append(s, k) \notin used
    <3> SUFFICES ASSUME \A k \in 2..n + 2 : Append(s, k) \in used PROVE FALSE
      OBVIOUS
    <3> DEFINE N == 2..n + 2
               f == [k \in N |-> Append(s, k)]
    <3>1. IsFiniteSet(N) /\ Cardinality(N) = n + 1
      <4>1. 2 \in Int /\ n + 2 \in Int /\ ~(2 > n + 2) /\ (n + 2) - 2 + 1 = n + 1
        BY <2>2
      <4> QED BY <4>1, FS_Interval
    <3>2. f \in [N -> used]
      OBVIOUS
    <3>3. Cardinality(used) < Cardinality(N)
      BY <2>2, <3>1 DEF n
    <3> HIDE DEF f, N
    <3>4. \E x, y \in N : x # y /\ f[x] = f[y]
      BY <3>1, <3>2, <3>3, FS_PigeonHole
    <3> QED BY <2>3, <3>4 DEF f, N
  <2>5. F \subseteq Nat /\ F # {}
    BY <2>2, <2>4
  <2>6. PICK k \in F : \A y \in F : <<y, k>> \notin OpToRel(<, Nat)
    <3> HIDE DEF F
    <3> QED BY <2>5, NatLessThanWellFounded, WFMin
  <2>7. k \in 2..n + 2 /\ Append(s, k) \notin used
    BY <2>6
  <2>8. ASSUME NEW i \in 2..k - 1 PROVE Append(s, i) \in used
    <3>1. i \in Nat /\ k \in Nat /\ i < k /\ i \in 2..n + 2
      BY <2>2, <2>7
    <3>2. <<i, k>> \in OpToRel(<, Nat)
      BY <3>1 DEF OpToRel
    <3>3. i \notin F
      BY <2>6, <3>2
    <3> QED BY <3>1, <3>3
  <2>9. PICK c : /\ c = CHOOSE l \in 2..n + 2 : /\ Append(s, l) \notin used
                                               /\ \A i \in 2..l - 1 : Append(s, i) \in used
                 /\ Append(s, c) \notin used
    BY <2>7, <2>8
  <2>10. Unique(name, used) = Append(s, c)
    BY <1>2, <2>9 DEF Unique, s, n
  <2> QED BY <2>9, <2>10
<1> QED BY <1>1, <1>2

\* No name is given twice, none that was there before, and all are remembered.
Distinct(w, known) ==
  /\ DOMAIN w = {"used", "names"}
  /\ IsFiniteSet(w.used) /\ known \subseteq w.used
  /\ w.names \in Seq(w.used \ known) /\ IsInjective(w.names)

LEMMA NextDistinct ==
  ASSUME NEW known, NEW w, Distinct(w, known), NEW name \in DOMAIN Fold
  PROVE  Distinct(NextName(w, name), known)
<1> DEFINE n == Unique(name, w.used)
           u == w.used \cup {n}
           a == Append(w.names, n)
<1>1. n \notin w.used
  BY FreeName DEF Distinct
<1>2. NextName(w, name) = [used |-> u, names |-> a]
  BY DEF NextName, Used
<1> HIDE DEF n
<1>3. IsFiniteSet(u) /\ known \subseteq u
  BY FS_AddElement DEF Distinct
<1>4. w.names \in Seq(u \ known) /\ n \in u \ known /\ w.names \in Seq(w.used)
  BY <1>1 DEF Distinct
<1>5. a \in Seq(u \ known)
  BY <1>4
<1>6. ASSUME NEW i \in DOMAIN a, NEW j \in DOMAIN a, a[i] = a[j] PROVE i = j
  <2>1. DOMAIN w.names = 1..Len(w.names) /\ Len(w.names) \in Nat /\ DOMAIN a = 1..(Len(w.names) + 1)
    BY <1>4
  <2>2. \A k \in DOMAIN w.names : a[k] = w.names[k] /\ w.names[k] # n
    BY <1>1, <1>4
  <2>3. a[Len(w.names) + 1] = n
    BY <1>4
  <2>4. \A x, y \in DOMAIN w.names : w.names[x] = w.names[y] => x = y
    BY DEF Distinct, IsInjective
  <2> HIDE DEF a
  <2>5. \A k \in DOMAIN a : k = Len(w.names) + 1 \/ k \in DOMAIN w.names
    BY <2>1
  <2> QED BY <1>6, <2>2, <2>3, <2>4, <2>5
<1>7. IsInjective(a)
  BY <1>6 DEF IsInjective
<1> HIDE DEF u, a
<1> QED BY <1>2, <1>3, <1>5, <1>7 DEF Distinct

LEMMA AllDistinct ==
  ASSUME NEW files \in Seq(DOMAIN Fold), NEW missing, NEW known, IsFiniteSet(known)
  PROVE  LET names == Written(files, missing, known)
         IN  IsInjective(names) /\ {names[i] : i \in DOMAIN names} \cap known = {}
<1> DEFINE base == [used |-> known, names |-> <<>>]
<1>1. Distinct(base, known)
  <2>1. <<>> \in Seq(known \ known) /\ DOMAIN base = {"used", "names"}
    OBVIOUS
  <2>2. IsInjective(<<>>)
    BY DEF IsInjective
  <2> QED BY <2>1, <2>2 DEF Distinct
<1> HIDE DEF base
<1>2. PICK f : /\ f[0] = base /\ f[Len(files)] = Kept(missing, files, base)
               /\ \A k \in Nat : k < Len(files) => f[k + 1] = Taken(missing, files, f[k], k + 1)
  BY SaveSteps
<1> DEFINE T == {k \in Nat : k <= Len(files) => Distinct(f[k], known)}
<1>3. 0 \in T
  BY <1>1, <1>2
<1>4. ASSUME NEW k \in Nat, k \in T PROVE k + 1 \in T
  <2> SUFFICES ASSUME k + 1 <= Len(files) PROVE Distinct(f[k + 1], known)
    OBVIOUS
  <2>1. Len(files) \in Nat
    OBVIOUS
  <2>2. k < Len(files) /\ Distinct(f[k], known)
    BY <1>4, <2>1
  <2> HIDE DEF T
  <2>3. f[k + 1] = Taken(missing, files, f[k], k + 1)
    BY <1>2, <2>2
  <2>4. files[k + 1] \in DOMAIN Fold
    BY <2>1
  <2> QED BY <2>2, <2>3, <2>4, NextDistinct DEF Taken
<1> HIDE DEF T
<1>5. Distinct(Kept(missing, files, base), known)
  <2>1. Len(files) \in T /\ Len(files) \in Nat
    BY <1>3, <1>4, Upwards
  <2> QED BY <1>2, <2>1 DEF T
<1>6. Written(files, missing, known) = Kept(missing, files, base).names
  BY DEF Written, Kept, base
<1> DEFINE w == Kept(missing, files, base)
<1> HIDE DEF w
<1>7. Distinct(w, known) /\ Written(files, missing, known) = w.names
  BY <1>5, <1>6 DEF w
<1>8. \A i \in DOMAIN w.names : w.names[i] \in w.used \ known
  BY <1>7 DEF Distinct
<1> QED BY <1>7, <1>8 DEF Distinct

\* Whatever is missing or fails, a save loses nothing.
LEMMA NoLosses == ASSUME NEW files \in Seq(DOMAIN Fold) PROVE Losses(files) \subseteq {FALSE}
<1> DEFINE Lost(readable, missing, failed) ==
             LET names == Written(files, missing, IF readable THEN Existing ELSE {})
             IN  readable /\ ({names[i] : i \in DOMAIN names \ failed} \cap Existing # {}
                                \/ ~IsInjective(names))
<1>0. Losses(files) = {Lost(readable, missing, failed) :
                         readable \in BOOLEAN, missing \in SUBSET DOMAIN files, failed \in {{}, {1}}}
  BY DEF Losses
<1>1. ASSUME NEW readable \in BOOLEAN, NEW missing \in SUBSET DOMAIN files, NEW failed \in {{}, {1}}
      PROVE  Lost(readable, missing, failed) = FALSE
  <2>1. CASE ~readable
    BY <2>1
  <2>2. CASE readable
    <3>1. IsFiniteSet(Existing)
      BY ReaderAssumption
    <3> DEFINE names == Written(files, missing, Existing)
    <3>2. IsInjective(names) /\ {names[i] : i \in DOMAIN names} \cap Existing = {}
      BY <3>1, AllDistinct
    <3> HIDE DEF names
    <3>3. {names[i] : i \in DOMAIN names \ failed} \cap Existing = {}
      BY <3>2
    <3> QED BY <2>2, <3>2, <3>3 DEF names
  <2> QED BY <2>1, <2>2
<1> HIDE DEF Lost
<1>2. ASSUME NEW lost \in Losses(files) PROVE lost = FALSE
  <2>1. \E readable \in BOOLEAN, missing \in SUBSET DOMAIN files, failed \in {{}, {1}} :
          lost = Lost(readable, missing, failed)
    BY <1>0, <1>2
  <2> QED BY <1>1, <2>1
<1> QED BY <1>2

SaveInv == NothingOverwritten /\ current \in Messages \cup {None}

LEMMA SaveActs == ASSUME SaveInv, Acts PROVE SaveInv'
<1> USE DEF conf, folder, image, text, shown, SaveInv, NothingOverwritten
<1>1. CASE SaveAll
  <2>1. PICK lost \in Losses(IF current = None THEN <<>> ELSE Attachments[current]) :
          clobbered' = (clobbered \/ lost)
    BY <1>1 DEF SaveAll
  <2>2. (IF current = None THEN <<>> ELSE Attachments[current]) \in Seq(DOMAIN Fold)
    <3>1. <<>> \in Seq(DOMAIN Fold)
      OBVIOUS
    <3>2. current # None => Attachments[current] \in Seq(DOMAIN Fold)
      BY ReaderAssumption
    <3> QED BY <3>1, <3>2
  <2>3. lost = FALSE
    BY <2>1, <2>2, NoLosses
  <2>4. current' = current
    BY <1>1 DEF SaveAll
  <2> QED BY <2>1, <2>3, <2>4
<1>2. CASE Open
  BY <1>2 DEF Open
<1>3. CASE Refresh
  BY <1>3 DEF Refresh, ShowNothing, Show
<1>4. CASE Translate \/ Agree \/ Cancel \/ Toggle \/ ClickLoad \/ SaveOne \/ Close
  BY <1>4 DEF Translate, Agree, Cancel, Toggle, ClickLoad, SaveOne, Close
<1>5. ASSUME NEW m \in Messages, Select(m) PROVE SaveInv'
  BY <1>5 DEF Select, Show
<1>6. ASSUME NEW p \in Prefs, Settings(p) PROVE SaveInv'
  BY <1>6 DEF Settings
<1>7. ASSUME NEW box \in {"one", "all"}, AskDirectory(box) PROVE SaveInv'
  BY <1>7 DEF AskDirectory
<1> QED BY <1>1, <1>2, <1>3, <1>4, <1>5, <1>6, <1>7 DEF Acts

LEMMA SaveSlots == ASSUME SaveInv, Slots PROVE SaveInv'
<1>1. UNCHANGED <<current, clobbered>>
  BY DEF Slots, AutoLoad, TranslateChunk, TranslationLoaded, TranslationFinished,
         Download, ImagesLoaded, ImagesFinished, folder, conf
<1> QED BY <1>1 DEF SaveInv, NothingOverwritten

\* The loop of _save_all_attachments in either window, and _unique_filename: what is
\* saved into a directory that can be listed overwrites neither a file that was there
\* nor another attachment, for any names and any files.
THEOREM SavedHolds == Spec => []NothingOverwritten
<1>1. Init => SaveInv
  BY DEF Init, SaveInv, NothingOverwritten
<1>2. SaveInv /\ [Next]_vars => SaveInv'
  <2>1. ASSUME SaveInv, UNCHANGED vars PROVE SaveInv'
    BY <2>1 DEF vars, folder, SaveInv, NothingOverwritten
  <2> QED BY <2>1, SaveActs, SaveSlots DEF Next
<1>3. SaveInv => NothingOverwritten
  BY DEF SaveInv
<1> QED BY <1>1, <1>2, <1>3, PTL DEF Spec
=============================================================================
