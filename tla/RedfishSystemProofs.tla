------------------------ MODULE RedfishSystemProofs ------------------------
(***************************************************************************)
(* Proofs about conditional PATCHes of the system and about the virtual    *)
(* CD, for every number of connections, every set of bodies and images,    *)
(* and every bound on changes and files.                                   *)
(***************************************************************************)
EXTENDS RedfishSystem, WellFoundedInduction, TLAPS

USE MediaAssumption, PatchAssumption DEF Files, ClerkAt, PatchAt

-----------------------------------------------------------------------------
(* The clerks of the virtual CD: one record changes, the others stay       *)

LEMMA ClerkFields ==
    ASSUME NEW A, NEW B, NEW C, NEW D, NEW r \in [pc: A, image: B, file: C, alone: D]
    PROVE  r.pc \in A /\ r.image \in B /\ r.file \in C /\ r.alone \in D
    OBVIOUS

\* The request of one connection is replaced.
LEMMA ClerkBecomes ==
    ASSUME MediaTypeOK, NEW c \in MediaClients, NEW r \in Clerk, clerk' = [clerk EXCEPT ![c] = r]
    PROVE  /\ clerk' \in [MediaClients -> Clerk] /\ clerk'[c] = r
           /\ \A d \in MediaClients \ {c} : clerk'[d] = clerk[d]
    BY DEF MediaTypeOK

LEMMA ClerkMoves ==
    ASSUME NEW A, NEW B, NEW C, NEW D, NEW r \in [pc: A, image: B, file: C, alone: D],
           NEW p \in A, NEW s, s = [r EXCEPT !.pc = p]
    PROVE  /\ s \in [pc: A, image: B, file: C, alone: D]
           /\ s.pc = p /\ s.image = r.image /\ s.file = r.file /\ s.alone = r.alone
    OBVIOUS

LEMMA ClerkTakesFile ==
    ASSUME NEW A, NEW B, NEW C, NEW D, NEW r \in [pc: A, image: B, file: C, alone: D],
           NEW f \in C, NEW s, s = [r EXCEPT !.file = f]
    PROVE  /\ s \in [pc: A, image: B, file: C, alone: D]
           /\ s.file = f /\ s.pc = r.pc /\ s.image = r.image /\ s.alone = r.alone
    OBVIOUS

LEMMA ClerkMeets ==
    ASSUME NEW A, NEW B, NEW C, NEW D, NEW r \in [pc: A, image: B, file: C, alone: D],
           NEW b \in D, NEW s, s = [r EXCEPT !.alone = b]
    PROVE  /\ s \in [pc: A, image: B, file: C, alone: D]
           /\ s.alone = b /\ s.pc = r.pc /\ s.image = r.image /\ s.file = r.file
    OBVIOUS

\* The same, for the clerks' own type.
LEMMA ClerkChanges ==
    ASSUME NEW r \in Clerk
    PROVE  /\ r.pc \in ClerkPlaces /\ r.image \in Urls \cup LocalImages \cup {NoImage}
           /\ r.file \in Files \cup {0} /\ r.alone \in BOOLEAN
           /\ \A p \in ClerkPlaces :
                 LET s == [r EXCEPT !.pc = p]
                 IN  s \in Clerk /\ s.pc = p /\ s.image = r.image /\ s.file = r.file /\ s.alone = r.alone
           /\ \A f \in Files \cup {0} :
                 LET s == [r EXCEPT !.file = f]
                 IN  s \in Clerk /\ s.file = f /\ s.pc = r.pc /\ s.image = r.image /\ s.alone = r.alone
           /\ LET s == [r EXCEPT !.alone = FALSE]
              IN  s \in Clerk /\ ~s.alone /\ s.pc = r.pc /\ s.image = r.image /\ s.file = r.file
<1> DEFINE Images == Urls \cup LocalImages \cup {NoImage}
           Numbers == Files \cup {0}
           Truths == BOOLEAN
<1>1. r \in [pc: ClerkPlaces, image: Images, file: Numbers, alone: Truths] /\ FALSE \in Truths
    BY DEF Clerk
<1>2. Clerk = [pc: ClerkPlaces, image: Images, file: Numbers, alone: Truths]
    BY DEF Clerk
<1> HIDE DEF Images, Numbers, Truths
<1>3. r.pc \in ClerkPlaces /\ r.image \in Images /\ r.file \in Numbers /\ r.alone \in Truths
    BY <1>1, ClerkFields, Zenon
<1>4. ASSUME NEW p \in ClerkPlaces, NEW s, s = [r EXCEPT !.pc = p]
      PROVE  s \in Clerk /\ s.pc = p /\ s.image = r.image /\ s.file = r.file /\ s.alone = r.alone
    BY <1>1, <1>2, <1>4, ClerkMoves, Zenon
<1>5. ASSUME NEW f \in Numbers, NEW s, s = [r EXCEPT !.file = f]
      PROVE  s \in Clerk /\ s.file = f /\ s.pc = r.pc /\ s.image = r.image /\ s.alone = r.alone
    BY <1>1, <1>2, <1>5, ClerkTakesFile, Zenon
<1>6. ASSUME NEW s, s = [r EXCEPT !.alone = FALSE]
      PROVE  s \in Clerk /\ s.alone = FALSE /\ s.pc = r.pc /\ s.image = r.image /\ s.file = r.file
    BY <1>1, <1>2, <1>6, ClerkMeets, Zenon
<1> QED
    BY <1>3, <1>4, <1>5, <1>6, Zenon DEF Images, Numbers, Truths

-----------------------------------------------------------------------------
(* The virtual CD                                                          *)

\* What is in the drive and the four places that say so have their types.
HoldingsOK ==
    /\ currentMedia \in Urls \cup LocalImages \cup {NoImage}
    /\ media \in Holdings
    /\ path \in Files \cup {0}
    /\ content \in [Files -> SUBSET (Urls \cup {"partial"})]
    /\ drive \in (Holdings \ {Path}) \cup {File(f) : f \in Files}
    /\ tainted \in BOOLEAN

\* A request under way takes a step, and is not over.
LEMMA ClerkSteps ==
    ASSUME MediaInv, NEW c \in MediaClients, clerk[c].pc # "idle",
           HoldingsOK', clerk' \in [MediaClients -> Clerk],
           \A d \in MediaClients \ {c} : clerk'[d] = clerk[d],
           clerk'[c].pc # "idle", ClerkPlace(clerk[c])',
           clerk'[c].alone => clerk[c].alone /\ AloneOK(clerk[c])',
           ~tainted' => ~tainted /\ clerk'[c].alone, ColdStartFindsImage'
    PROVE  MediaInv'
<1>1. /\ c \in Busy /\ Busy' = Busy
      /\ \A d \in MediaClients : clerk[d].alone => Busy = {d}
      /\ ~tainted => \A d \in Busy : clerk[d].alone
    BY DEF Busy, MediaInv, MediaTypeOK
<1>2. \A d \in MediaClients \ {c} : ~clerk[d].alone
    BY <1>1
<1>3. MediaTypeOK'
    BY <1>1, <1>2 DEF MediaTypeOK, HoldingsOK
<1>4. ASSUME NEW d \in MediaClients
      PROVE  /\ ClerkPlace(clerk[d])'
             /\ clerk'[d].alone => AloneOK(clerk[d])'
             /\ ~tainted' /\ d \in Busy' => clerk'[d].alone
  <2>1. CASE d = c
      BY <2>1
  <2>2. CASE d # c
    <3>1. ClerkPlace(clerk[d])' /\ ~clerk'[d].alone
        BY <1>2, <2>2 DEF MediaInv, ClerkPlace
    <3> QED
        BY <1>1, <2>2, <3>1
  <2> QED
      BY <2>1, <2>2
<1>5. MediaAgree'
    BY <1>1 DEF MediaAgree
<1> QED
    BY <1>3, <1>4, <1>5 DEF MediaInv

\* A request begins.
LEMMA BeginKeeps ==
    ASSUME MediaInv, NEW c \in MediaClients, NEW p \in {"get", "set_media", "clear_media"},
           NEW image \in Urls \cup LocalImages \cup {NoImage},
           p = "get" => image \in Urls, p = "set_media" => image \in LocalImages,
           p = "clear_media" => image = NoImage, BeginMedia(c, p, image)
    PROVE  MediaInv'
<1> DEFINE r == [NoClerk EXCEPT !.pc = p, !.image = image, !.alone = (Busy = {})]
<1>1. /\ clerk' = [d \in MediaClients |-> IF d = c THEN r ELSE [clerk[d] EXCEPT !.alone = FALSE]]
      /\ tainted' = (tainted \/ Busy # {})
      /\ UNCHANGED <<serviceVars, currentMedia, media, path, content, drive>>
      /\ clerk[c].pc = "idle"
    BY DEF BeginMedia
<1>2. /\ r \in Clerk /\ r.pc = p /\ r.image = image /\ (r.alone <=> Busy = {})
  <2> DEFINE b == Busy = {}
  <2>1. b \in BOOLEAN
      OBVIOUS
  <2> HIDE DEF b
  <2> DEFINE t == [NoClerk EXCEPT !.pc = p, !.image = image, !.alone = b]
  <2>2. NoClerk \in Clerk
      BY DEF NoClerk, Clerk, ClerkPlaces
  <2>3. t \in Clerk
      BY <2>1, <2>2 DEF Clerk, ClerkPlaces
  <2>4. t.pc = p /\ t.image = image /\ t.alone = b
      BY DEF NoClerk
  <2>5. r = t
      BY DEF b
  <2> HIDE DEF r, t
  <2> QED
      BY <2>3, <2>4, <2>5, Zenon DEF b
<1> HIDE DEF r
<1>3. \A d \in MediaClients : clerk[d] \in Clerk
    BY DEF MediaInv, MediaTypeOK
<1>4. /\ clerk' \in [MediaClients -> Clerk] /\ clerk'[c] = r
      /\ \A d \in MediaClients \ {c} :
            ~clerk'[d].alone /\ clerk'[d].pc = clerk[d].pc /\ clerk'[d].image = clerk[d].image
    BY <1>1, <1>2, <1>3, ClerkChanges
<1>5. Busy' = Busy \cup {c} /\ c \notin Busy
    BY <1>1, <1>2, <1>4 DEF Busy
<1>6. MediaTypeOK'
    BY <1>1, <1>2, <1>4, <1>5 DEF MediaInv, MediaTypeOK
<1>7. \A d \in MediaClients : ClerkPlace(clerk[d])'
    BY <1>2, <1>4 DEF MediaInv, ClerkPlace
<1>8. ASSUME NEW d \in MediaClients
      PROVE  /\ clerk'[d].alone => AloneOK(clerk[d])'
             /\ ~tainted' /\ d \in Busy' => clerk'[d].alone
    BY <1>1, <1>2, <1>4, <1>5 DEF AloneOK
<1>9. MediaAgree'
    BY <1>5 DEF MediaAgree
<1>10. ColdStartFindsImage'
    BY <1>1 DEF MediaInv, ColdStartFindsImage, Missing
<1> QED
    BY <1>6, <1>7, <1>8, <1>9, <1>10 DEF MediaInv

LEMMA ClerkGoes ==
    ASSUME MediaTypeOK, NEW c \in MediaClients, NEW p \in ClerkPlaces, ClerkGoto(c, p)
    PROVE  /\ clerk' \in [MediaClients -> Clerk]
           /\ \A d \in MediaClients \ {c} : clerk'[d] = clerk[d]
           /\ clerk'[c].pc = p /\ clerk'[c].image = clerk[c].image
           /\ clerk'[c].file = clerk[c].file /\ clerk'[c].alone = clerk[c].alone
<1>1. clerk[c] \in Clerk
    BY DEF MediaTypeOK
<1> DEFINE r == [clerk[c] EXCEPT !.pc = p]
<1>2. /\ r \in Clerk /\ r.pc = p /\ r.image = clerk[c].image /\ r.file = clerk[c].file
      /\ r.alone = clerk[c].alone
    BY <1>1, ClerkChanges
<1>3. clerk' = [clerk EXCEPT ![c] = r]
    BY DEF ClerkGoto, MediaTypeOK
<1> HIDE DEF r
<1> QED
    BY <1>2, <1>3, ClerkBecomes

\* What a request finds that is under way: its types, and what it has set if it is alone.
LEMMA ClerkKnows ==
    ASSUME MediaInv, NEW c \in MediaClients, clerk[c].pc # "idle"
    PROVE  /\ MediaTypeOK /\ HoldingsOK
           /\ clerk[c] \in Clerk /\ clerk[c].image \in Urls \cup LocalImages \cup {NoImage}
           /\ clerk[c].file \in Files \cup {0} /\ clerk[c].alone \in BOOLEAN
           /\ ClerkPlace(clerk[c])
           /\ clerk[c].alone => AloneOK(clerk[c])
           /\ ~tainted => clerk[c].alone /\ ~Missing(media)
<1>1. clerk[c] \in Clerk /\ c \in Busy
    BY DEF MediaInv, MediaTypeOK, Busy
<1>2. HoldingsOK
    BY DEF MediaInv, MediaTypeOK, HoldingsOK
<1> QED
    BY <1>1, <1>2, ClerkChanges DEF MediaInv, ColdStartFindsImage

\* A request has failed in part.
LEMMA FailureKeeps ==
    ASSUME MediaInv, NEW c \in MediaClients, clerk[c].pc # "idle", MediaFails(c), HoldingsOK'
    PROVE  MediaInv'
<1> DEFINE q == [clerk[c] EXCEPT !.pc = "record"]
           r == [q EXCEPT !.alone = FALSE]
<1>1. clerk[c] \in Clerk /\ "record" \in ClerkPlaces
    BY ClerkKnows DEF ClerkPlaces
<1>2. q \in Clerk /\ q.pc = "record"
    BY <1>1, ClerkChanges
<1>3. clerk' = [clerk EXCEPT ![c] = r]
    BY DEF MediaFails, MediaInv, MediaTypeOK
<1> HIDE DEF q
<1>4. r \in Clerk /\ r.pc = "record" /\ ~r.alone
    BY <1>2, ClerkChanges
<1> HIDE DEF r
<1>5. /\ clerk' \in [MediaClients -> Clerk] /\ clerk'[c] = r
      /\ \A d \in MediaClients \ {c} : clerk'[d] = clerk[d]
    BY <1>3, <1>4, ClerkBecomes DEF MediaInv
<1>6. ClerkPlace(clerk[c])' /\ ColdStartFindsImage' /\ tainted'
    BY <1>4, <1>5 DEF ClerkPlace, ColdStartFindsImage, MediaFails
<1> QED
    BY <1>4, <1>5, <1>6, ClerkSteps

LEMMA FetchRefusedKeeps ==
    ASSUME MediaInv, NEW c \in MediaClients, FetchRefused(c)
    PROVE  MediaInv'
<1>1. HoldingsOK'
    BY DEF MediaInv, MediaTypeOK, HoldingsOK, FetchRefused, MediaFails
<1> QED
    BY <1>1, FailureKeeps DEF FetchRefused

LEMMA CopyFailsKeeps ==
    ASSUME MediaInv, NEW c \in MediaClients, CopyFails(c)
    PROVE  MediaInv'
<1>1. HoldingsOK'
    BY DEF MediaInv, MediaTypeOK, HoldingsOK, CopyFails, MediaFails
<1> QED
    BY <1>1, FailureKeeps DEF CopyFails

\* A set of numbers that is not empty has a least one.
LEMMA LeastFile ==
    ASSUME NEW T \in SUBSET Nat, T # {}
    PROVE  \E n \in T : \A m \in T : n <= m
<1>1. \E n \in T : \A m \in T : ~(<<m, n>> \in OpToRel(<, Nat))
    BY NatLessThanWellFounded, WFMin
<1>2. ASSUME NEW n \in T, NEW m \in T, m < n
      PROVE  <<m, n>> \in OpToRel(<, Nat)
    BY <1>2 DEF OpToRel
<1>3. \A n, m \in T : ~(m < n) => n <= m
    OBVIOUS
<1> QED
    BY <1>1, <1>2, <1>3

\* The file is the one there is or one that nobody uses.
LEMMA CreateFileKeeps ==
    ASSUME MediaInv, NEW c \in MediaClients, CreateFile(c)
    PROVE  MediaInv'
<1>1. PICK f \in Files :
          /\ path' = f /\ content' = [content EXCEPT ![f] = {}]
          /\ clerk' = [clerk EXCEPT ![c].pc = "copy", ![c].file = f]
  <2> DEFINE unused == {f \in Files : f # path /\ content[f] = {} /\ drive # File(f)
                                        /\ \A d \in MediaClients : clerk[d].file # f}
             least == CHOOSE g \in unused : \A h \in unused : g <= h
             f == IF path # 0 THEN path ELSE least
  <2>1. unused \subseteq Files /\ (unused # {} => least \in unused)
    <3>1. unused \in SUBSET Nat /\ unused \subseteq Files
        OBVIOUS
    <3> HIDE DEF unused
    <3>2. unused # {} => \E g \in unused : \A h \in unused : g <= h
        BY <3>1, LeastFile
    <3> QED
        BY <3>1, <3>2
  <2>2. (path # 0 \/ unused # {}) /\ path \in Files \cup {0}
      BY DEF CreateFile, MediaInv, MediaTypeOK
  <2>3. f \in Files
      BY <2>1, <2>2
  <2>4. /\ path' = f /\ content' = [content EXCEPT ![f] = {}]
        /\ clerk' = [clerk EXCEPT ![c].pc = "copy", ![c].file = f]
      BY DEF CreateFile
  <2> HIDE DEF f
  <2> QED
      BY <2>3, <2>4
<1>2. /\ clerk[c].pc = "get" /\ clerk[c] \in Clerk /\ clerk[c].image \in Urls /\ HoldingsOK
      /\ clerk[c].alone \in BOOLEAN /\ (~tainted => clerk[c].alone)
    BY ClerkKnows DEF CreateFile, ClerkPlace
<1> DEFINE q == [clerk[c] EXCEPT !.pc = "copy"]
           r == [q EXCEPT !.file = f]
<1>3. q \in Clerk /\ q.pc = "copy" /\ q.image = clerk[c].image /\ q.alone = clerk[c].alone
    BY <1>2, ClerkChanges DEF ClerkPlaces
<1>4. clerk' = [clerk EXCEPT ![c] = r]
    BY <1>1 DEF MediaInv, MediaTypeOK
<1> HIDE DEF q
<1>5. /\ r \in Clerk /\ r.pc = "copy" /\ r.image = clerk[c].image /\ r.alone = clerk[c].alone
      /\ r.file = f
    BY <1>3, ClerkChanges
<1> HIDE DEF r
<1>6. /\ clerk' \in [MediaClients -> Clerk] /\ clerk'[c] = r
      /\ \A d \in MediaClients \ {c} : clerk'[d] = clerk[d]
    BY <1>4, <1>5, ClerkBecomes DEF MediaInv
<1>7. UNCHANGED <<currentMedia, media, drive, tainted>>
    BY DEF CreateFile
<1>8. HoldingsOK'
    BY <1>1, <1>2, <1>7 DEF HoldingsOK
<1>9. ClerkPlace(clerk[c])' /\ AloneOK(clerk[c])' /\ ColdStartFindsImage'
    BY <1>1, <1>2, <1>5, <1>6 DEF ClerkPlace, AloneOK, ColdStartFindsImage, Missing, HoldingsOK
<1> QED
    BY <1>2, <1>5, <1>6, <1>7, <1>8, <1>9, ClerkSteps

\* An image is whole, and a file that has been made holds a part of it.
LEMMA CopyEndsKeeps ==
    ASSUME MediaInv, NEW c \in MediaClients, CopyEnds(c)
    PROVE  MediaInv'
<1>1. /\ clerk[c].pc = "copy" /\ ClerkGoto(c, "set_media")
      /\ UNCHANGED <<currentMedia, media, path, drive, tainted>>
      /\ content' = [content EXCEPT ![clerk[c].file] = @ \cup {clerk[c].image}]
    BY DEF CopyEnds
<1>2. /\ MediaTypeOK /\ HoldingsOK /\ clerk[c].image \in Urls /\ clerk[c].alone \in BOOLEAN
      /\ clerk[c].alone => clerk[c].file \in Files /\ path = clerk[c].file /\ content[path] = {}
      /\ ~tainted => clerk[c].alone /\ ~Missing(media)
    BY <1>1, ClerkKnows DEF ClerkPlace, AloneOK
<1>3. /\ clerk' \in [MediaClients -> Clerk] /\ \A d \in MediaClients \ {c} : clerk'[d] = clerk[d]
      /\ clerk'[c].pc = "set_media" /\ clerk'[c].image = clerk[c].image
      /\ clerk'[c].file = clerk[c].file /\ clerk'[c].alone = clerk[c].alone
    BY <1>1, <1>2, ClerkGoes DEF ClerkPlaces
<1>4. HoldingsOK'
    BY <1>1, <1>2 DEF HoldingsOK
<1>5. ClerkPlace(clerk[c])' /\ ColdStartFindsImage'
    BY <1>1, <1>2, <1>3 DEF ClerkPlace, ColdStartFindsImage, Missing
<1>6. clerk'[c].alone => AloneOK(clerk[c])'
    BY <1>1, <1>2, <1>3 DEF AloneOK, HoldingsOK
<1> QED
    BY <1>1, <1>2, <1>3, <1>4, <1>5, <1>6, ClerkSteps

LEMMA SetMediaKeeps ==
    ASSUME MediaInv, NEW c \in MediaClients, SetMedia(c)
    PROVE  MediaInv'
<1>1. /\ clerk[c].pc = "set_media" /\ ClerkGoto(c, "change_medium") /\ media' = MediaPath(c)
      /\ UNCHANGED <<currentMedia, path, content, drive, tainted>>
    BY DEF SetMedia
<1>2. /\ MediaTypeOK /\ HoldingsOK /\ clerk[c].image \in Urls \cup LocalImages
      /\ clerk[c].alone \in BOOLEAN
      /\ clerk[c].alone /\ clerk[c].image \in Urls => path # 0 /\ content[path] = {clerk[c].image}
      /\ ~tainted => clerk[c].alone
    BY <1>1, ClerkKnows DEF ClerkPlace, AloneOK
<1>3. /\ clerk' \in [MediaClients -> Clerk] /\ \A d \in MediaClients \ {c} : clerk'[d] = clerk[d]
      /\ clerk'[c].pc = "change_medium" /\ clerk'[c].image = clerk[c].image
      /\ clerk'[c].alone = clerk[c].alone
    BY <1>1, <1>2, ClerkGoes DEF ClerkPlaces
<1>4. media' = Persisted(clerk[c].image) /\ media' \in Holdings
    BY <1>1, <1>2 DEF MediaPath, Persisted, Holdings
<1>5. HoldingsOK'
    BY <1>1, <1>2, <1>4 DEF HoldingsOK
<1>6. clerk'[c].alone => AloneOK(clerk[c])'
    BY <1>1, <1>2, <1>3, <1>4 DEF AloneOK, Whole, Persisted
<1>7. ClerkPlace(clerk[c])' /\ ColdStartFindsImage'
  <2>1. ClerkPlace(clerk[c])'
      BY <1>2, <1>3 DEF ClerkPlace
  <2>2. ~tainted => ~Missing(media')
      BY <1>1, <1>2, <1>4 DEF Missing, Persisted, Path, Local
  <2> QED
      BY <1>1, <2>1, <2>2 DEF ColdStartFindsImage, Missing
<1> QED
    BY <1>1, <1>2, <1>3, <1>5, <1>6, <1>7, ClerkSteps

\* What is in the drive when the medium in it is what is persisted.
LEMMA OpenedFits ==
    ASSUME HoldingsOK, NEW m \in Holdings, ~Missing(m)
    PROVE  Opened(m) \in (Holdings \ {Path}) \cup {File(f) : f \in Files}
    BY DEF HoldingsOK, Opened, Missing

LEMMA BlockdevChangeMediumKeeps ==
    ASSUME MediaInv, NEW c \in MediaClients, BlockdevChangeMedium(c)
    PROVE  MediaInv'
<1>1. /\ clerk[c].pc = "change_medium" /\ UNCHANGED <<vm, currentMedia, media, path, content>>
    BY DEF BlockdevChangeMedium, serviceVars, vmVars
<1>2. /\ MediaTypeOK /\ HoldingsOK /\ clerk[c].image \in Urls \cup LocalImages
      /\ clerk[c].alone \in BOOLEAN
      /\ clerk[c].alone => Whole(clerk[c].image)
      /\ ~tainted => clerk[c].alone /\ ~Missing(media)
    BY <1>1, ClerkKnows DEF ClerkPlace, AloneOK
<1>3. MediaPath(c) = Persisted(clerk[c].image) /\ MediaPath(c) \in Holdings
    BY <1>2 DEF MediaPath, Persisted, Holdings
<1>4. CASE MediaFails(c) /\ UNCHANGED drive
  <2>1. HoldingsOK'
      BY <1>1, <1>2, <1>4 DEF HoldingsOK, MediaFails
  <2> QED
      BY <1>1, <1>4, <2>1, FailureKeeps
<1>5. CASE /\ ClerkGoto(c, "record") /\ UNCHANGED tainted
           /\ \/ vm = 0 /\ UNCHANGED drive
              \/ vm # 0 /\ ~Missing(MediaPath(c)) /\ drive' = Opened(MediaPath(c))
  <2>1. /\ clerk' \in [MediaClients -> Clerk] /\ \A d \in MediaClients \ {c} : clerk'[d] = clerk[d]
        /\ clerk'[c].pc = "record" /\ clerk'[c].image = clerk[c].image
        /\ clerk'[c].alone = clerk[c].alone
      BY <1>2, <1>5, ClerkGoes DEF ClerkPlaces
  <2>2. drive' \in (Holdings \ {Path}) \cup {File(f) : f \in Files}
      BY <1>2, <1>3, <1>5, OpenedFits DEF HoldingsOK
  <2>3. HoldingsOK'
      BY <1>1, <1>2, <1>5, <2>2 DEF HoldingsOK
  <2>4. clerk[c].alone => (vm # 0 => drive' = Opened(media))
      BY <1>2, <1>3, <1>5 DEF Whole
  <2>5. clerk'[c].alone => AloneOK(clerk[c])'
      BY <1>1, <1>2, <2>1, <2>4 DEF AloneOK, Whole, InDrive, Opened
  <2>6. ClerkPlace(clerk[c])' /\ ColdStartFindsImage'
      BY <1>1, <1>2, <1>5, <2>1 DEF ClerkPlace, ColdStartFindsImage, Missing
  <2> QED
      BY <1>1, <1>2, <1>5, <2>1, <2>3, <2>5, <2>6, ClerkSteps
<1> QED
    BY <1>4, <1>5 DEF BlockdevChangeMedium

LEMMA ClearMediaKeeps ==
    ASSUME MediaInv, NEW c \in MediaClients, ClearMedia(c)
    PROVE  MediaInv'
<1>1. /\ clerk[c].pc = "clear_media" /\ ClerkGoto(c, "remove_file") /\ media' = Empty
      /\ UNCHANGED <<currentMedia, path, content, drive, tainted>>
    BY DEF ClearMedia
<1>2. /\ MediaTypeOK /\ HoldingsOK /\ clerk[c].image = NoImage /\ clerk[c].alone \in BOOLEAN
      /\ ~tainted => clerk[c].alone
    BY <1>1, ClerkKnows DEF ClerkPlace
<1>3. /\ clerk' \in [MediaClients -> Clerk] /\ \A d \in MediaClients \ {c} : clerk'[d] = clerk[d]
      /\ clerk'[c].pc = "remove_file" /\ clerk'[c].image = NoImage
      /\ clerk'[c].alone = clerk[c].alone
    BY <1>1, <1>2, ClerkGoes DEF ClerkPlaces
<1>4. HoldingsOK'
    BY <1>1, <1>2 DEF HoldingsOK, Holdings
<1>5. ClerkPlace(clerk[c])' /\ ColdStartFindsImage'
    BY <1>1, <1>3 DEF ClerkPlace, ColdStartFindsImage, Missing, Empty, Path
<1>6. AloneOK(clerk[c])'
    BY <1>1, <1>3 DEF AloneOK, Whole, Persisted
<1> QED
    BY <1>1, <1>2, <1>3, <1>4, <1>5, <1>6, ClerkSteps

LEMMA RemoveFileKeeps ==
    ASSUME MediaInv, NEW c \in MediaClients, RemoveFile(c)
    PROVE  MediaInv'
<1>1. /\ clerk[c].pc = "remove_file" /\ ClerkGoto(c, "remove_medium") /\ path' = 0
      /\ UNCHANGED <<currentMedia, media, content, drive, tainted>>
    BY DEF RemoveFile
<1>2. /\ MediaTypeOK /\ HoldingsOK /\ clerk[c].image = NoImage /\ clerk[c].alone \in BOOLEAN
      /\ clerk[c].alone => media = Empty
      /\ ~tainted => clerk[c].alone
    BY <1>1, ClerkKnows DEF ClerkPlace, AloneOK, Whole, Persisted
<1>3. /\ clerk' \in [MediaClients -> Clerk] /\ \A d \in MediaClients \ {c} : clerk'[d] = clerk[d]
      /\ clerk'[c].pc = "remove_medium" /\ clerk'[c].image = NoImage
      /\ clerk'[c].alone = clerk[c].alone
    BY <1>1, <1>2, ClerkGoes DEF ClerkPlaces
<1>4. HoldingsOK'
    BY <1>1, <1>2 DEF HoldingsOK
<1>5. ClerkPlace(clerk[c])' /\ ColdStartFindsImage'
    BY <1>1, <1>2, <1>3 DEF ClerkPlace, ColdStartFindsImage, Missing, Empty, Path
<1>6. clerk'[c].alone => AloneOK(clerk[c])'
    BY <1>1, <1>2, <1>3 DEF AloneOK, Whole, Persisted
<1> QED
    BY <1>1, <1>2, <1>3, <1>4, <1>5, <1>6, ClerkSteps

LEMMA BlockdevRemoveMediumKeeps ==
    ASSUME MediaInv, NEW c \in MediaClients, BlockdevRemoveMedium(c)
    PROVE  MediaInv'
<1>1. /\ clerk[c].pc = "remove_medium" /\ UNCHANGED <<vm, currentMedia, media, path, content>>
    BY DEF BlockdevRemoveMedium, serviceVars, vmVars
<1>2. /\ MediaTypeOK /\ HoldingsOK /\ clerk[c].image = NoImage /\ clerk[c].alone \in BOOLEAN
      /\ clerk[c].alone => media = Empty
      /\ ~tainted => clerk[c].alone /\ ~Missing(media)
    BY <1>1, ClerkKnows DEF ClerkPlace, AloneOK, Whole, Persisted
<1>3. CASE MediaFails(c) /\ UNCHANGED drive
  <2>1. HoldingsOK'
      BY <1>1, <1>2, <1>3 DEF HoldingsOK, MediaFails
  <2> QED
      BY <1>1, <1>3, <2>1, FailureKeeps
<1>4. CASE /\ ClerkGoto(c, "record") /\ UNCHANGED tainted
           /\ \/ vm = 0 /\ UNCHANGED drive
              \/ vm # 0 /\ drive' = Empty
  <2>1. /\ clerk' \in [MediaClients -> Clerk] /\ \A d \in MediaClients \ {c} : clerk'[d] = clerk[d]
        /\ clerk'[c].pc = "record" /\ clerk'[c].image = NoImage
        /\ clerk'[c].alone = clerk[c].alone
      BY <1>2, <1>4, ClerkGoes DEF ClerkPlaces
  <2>2. drive' \in (Holdings \ {Path}) \cup {File(f) : f \in Files}
      BY <1>2, <1>4 DEF HoldingsOK, Holdings, Empty, Path
  <2>3. HoldingsOK'
      BY <1>1, <1>2, <1>4, <2>2 DEF HoldingsOK
  <2>4. clerk'[c].alone => AloneOK(clerk[c])'
      BY <1>1, <1>2, <1>4, <2>1 DEF AloneOK, Whole, InDrive, Opened, Persisted, Empty, Path
  <2>5. ClerkPlace(clerk[c])' /\ ColdStartFindsImage'
      BY <1>1, <1>2, <1>4, <2>1 DEF ClerkPlace, ColdStartFindsImage, Missing
  <2> QED
      BY <1>1, <1>2, <1>4, <2>1, <2>3, <2>4, <2>5, ClerkSteps
<1> QED
    BY <1>3, <1>4 DEF BlockdevRemoveMedium

\* A request is over: if it ran alone, what Redfish shows is what it has set.
LEMMA SetCurrentMediaKeeps ==
    ASSUME MediaInv, NEW c \in MediaClients, SetCurrentMedia(c)
    PROVE  MediaInv'
<1>1. /\ clerk[c].pc = "record" /\ currentMedia' = clerk[c].image
      /\ clerk' = [clerk EXCEPT ![c] = NoClerk] /\ tainted' = (tainted /\ ~clerk[c].alone)
      /\ content' = [f \in Files |-> IF f = path \/ drive = File(f) THEN content[f] ELSE {}]
      /\ UNCHANGED <<vm, media, path, drive>>
    BY DEF SetCurrentMedia, EndMedia, serviceVars, vmVars
<1>2. /\ MediaTypeOK /\ HoldingsOK /\ clerk[c].image \in Urls \cup LocalImages \cup {NoImage}
      /\ clerk[c].alone \in BOOLEAN /\ c \in Busy
      /\ clerk[c].alone => Whole(clerk[c].image) /\ InDrive /\ Busy = {c}
      /\ ~tainted => clerk[c].alone
    BY <1>1, ClerkKnows DEF AloneOK, Busy, MediaTypeOK
<1>3. NoClerk \in Clerk /\ NoClerk.pc = "idle" /\ ~NoClerk.alone
    BY DEF NoClerk, Clerk, ClerkPlaces
<1>4. /\ clerk' \in [MediaClients -> Clerk] /\ clerk'[c] = NoClerk
      /\ \A d \in MediaClients \ {c} : clerk'[d] = clerk[d]
    BY <1>1, <1>2, <1>3, ClerkBecomes
<1>5. Busy' = Busy \ {c}
    BY <1>3, <1>4 DEF Busy
<1>6. ASSUME NEW d \in MediaClients, clerk'[d].alone
      PROVE  FALSE
  <2>1. d # c /\ clerk[d].alone
      BY <1>3, <1>4, <1>6
  <2>2. Busy = {d}
      BY <1>2, <2>1 DEF MediaTypeOK
  <2> QED
      BY <1>2, <2>1, <2>2
<1>7. \A d \in MediaClients : ~clerk'[d].alone
    BY <1>6
<1>8. HoldingsOK'
    BY <1>1, <1>2 DEF HoldingsOK
<1>9. MediaTypeOK'
    BY <1>4, <1>7, <1>8 DEF MediaTypeOK, HoldingsOK
<1>10. ~tainted' => Busy' = {}
    BY <1>1, <1>2, <1>5 DEF MediaInv
<1>11. ~tainted' => Whole(clerk[c].image) /\ InDrive
    BY <1>1, <1>2
<1>12. MediaAgree' /\ ColdStartFindsImage'
  <2>1. SUFFICES ASSUME ~tainted'
                 PROVE  /\ media' = Persisted(currentMedia')
                        /\ media' = Path => path' # 0 /\ content'[path'] = {currentMedia'}
                        /\ vm' # 0 => drive' = Opened(media)'
                        /\ ~Missing(media)'
      BY DEF MediaAgree, ColdStartFindsImage
  <2>2. Whole(clerk[c].image) /\ InDrive
      BY <1>11, <2>1
  <2>3. media' = Persisted(currentMedia')
      BY <1>1, <2>2 DEF Whole
  <2>4. media' = Path => path' # 0 /\ content'[path'] = {currentMedia'}
      BY <1>1, <1>2, <2>2 DEF Whole, Persisted, HoldingsOK, Empty, Path, Local
  <2>5. (vm' # 0 => drive' = Opened(media)') /\ ~Missing(media)'
      BY <1>1, <2>2, <2>4 DEF InDrive, Opened, Missing
  <2> QED
      BY <2>3, <2>4, <2>5
<1>13. \A d \in MediaClients : ClerkPlace(clerk[d])'
    BY <1>3, <1>4 DEF MediaInv, ClerkPlace
<1> QED
    BY <1>5, <1>7, <1>9, <1>10, <1>12, <1>13 DEF MediaInv

LEMMA MediaHandlerKeeps ==
    ASSUME MediaInv, NEW c \in MediaClients, MediaHandler(c)
    PROVE  MediaInv'
<1>1. CASE InsertMedia(c)
    BY <1>1, BeginKeeps DEF InsertMedia
<1>2. CASE InsertLocal(c)
    BY <1>2, BeginKeeps DEF InsertLocal
<1>3. CASE EjectMedia(c)
    BY <1>3, BeginKeeps DEF EjectMedia
<1> QED
    BY <1>1, <1>2, <1>3, FetchRefusedKeeps, CreateFileKeeps, CopyFailsKeeps, CopyEndsKeeps,
       SetMediaKeeps, BlockdevChangeMediumKeeps, ClearMediaKeeps, RemoveFileKeeps,
       BlockdevRemoveMediumKeeps, SetCurrentMediaKeeps DEF MediaHandler

\* The VM starts or ends, and its drive with it.
LEMMA DriveKeeps ==
    ASSUME MediaInv, DriveFollowsVm,
           UNCHANGED <<currentMedia, media, path, content, tainted, clerk>>
    PROVE  MediaInv'
<1>1. HoldingsOK
    BY DEF MediaInv, MediaTypeOK, HoldingsOK
<1>2. drive' \in (Holdings \ {Path}) \cup {File(f) : f \in Files}
  <2>1. Empty \in (Holdings \ {Path})
      BY DEF Holdings, Empty, Path
  <2>2. ~Missing(media) => Opened(media) \in (Holdings \ {Path}) \cup {File(f) : f \in Files}
      BY <1>1, OpenedFits DEF HoldingsOK
  <2> QED
      BY <1>1, <2>1, <2>2 DEF DriveFollowsVm, HoldingsOK
<1>3. MediaTypeOK' /\ Busy' = Busy
    BY <1>2 DEF MediaInv, MediaTypeOK, Busy
<1>4. ASSUME ~Missing(media), vm # 0 => drive = Opened(media)
      PROVE  vm' # 0 => drive' = Opened(media)'
    BY <1>4 DEF DriveFollowsVm, Opened
<1>5. ASSUME NEW image, Whole(image)
      PROVE  ~Missing(media)
    BY <1>5 DEF Whole, Missing, Persisted, Empty, Path, Local
<1>6. ASSUME NEW d \in MediaClients, clerk[d].alone
      PROVE  AloneOK(clerk[d])'
  <2>1. AloneOK(clerk[d])
      BY <1>6 DEF MediaInv
  <2>2. clerk[d].pc = "record" => InDrive'
      BY <1>4, <1>5, <2>1 DEF AloneOK, InDrive
  <2> QED
      BY <2>1, <2>2 DEF AloneOK, Whole
<1>7. \A d \in MediaClients : ClerkPlace(clerk[d])' /\ (~tainted' /\ d \in Busy' => clerk'[d].alone)
    BY <1>3 DEF MediaInv, ClerkPlace
<1>8. MediaAgree' /\ ColdStartFindsImage'
    BY <1>3, <1>4 DEF MediaInv, MediaAgree, ColdStartFindsImage, Missing
<1> QED
    BY <1>3, <1>6, <1>7, <1>8 DEF MediaInv

LEMMA MediaInitOK ==
    ASSUME ServiceInit, MediaInit
    PROVE  MediaInv
<1>1. clerk \in [MediaClients -> Clerk] /\ \A c \in MediaClients : clerk[c].pc = "idle" /\ ~clerk[c].alone
    BY DEF MediaInit, NoClerk, Clerk, ClerkPlaces
<1>2. HoldingsOK
    BY DEF MediaInit, HoldingsOK, Holdings, Empty, Path
<1>3. MediaTypeOK /\ Busy = {}
    BY <1>1, <1>2 DEF MediaTypeOK, HoldingsOK, Busy
<1>4. MediaAgree /\ ColdStartFindsImage
    BY DEF MediaInit, ServiceInit, Init, MediaAgree, ColdStartFindsImage, Missing, Persisted, Empty, Path
<1> QED
    BY <1>1, <1>3, <1>4 DEF MediaInv, ClerkPlace

-----------------------------------------------------------------------------
(* Conditional PATCHes                                                     *)

RequestOK(r) == DOMAIN r = DOMAIN NoPatch /\ PatchPlace(r) /\ TagOK(r) /\ AskedOK(r)

\* Nothing that an ETag stands for changes.
SameSystem == UNCHANGED <<vm, paused, override, bootOrder, changes>>

\* What a request that others overtake has found is of the past.
LEMMA Overtaken ==
    ASSUME NEW r, RequestOK(r), changes \in Nat, SameSystem \/ changes' = changes + 1
    PROVE  RequestOK(r)'
<1>1. CASE SameSystem
    BY <1>1 DEF SameSystem, RequestOK, PatchPlace, TagOK, AskedOK, PowerNow, SystemNow
<1>2. CASE changes' = changes + 1
  <2>1. TagOK(r)'
      BY <1>2 DEF RequestOK, TagOK
  <2>2. r.pc \in Unwritten => r.began <= changes
      BY DEF RequestOK, AskedOK
  <2>3. r.pc \in Unwritten => r.began # changes'
      BY <1>2, <2>2 DEF RequestOK, AskedOK
  <2>4. r.body # <<>> /\ r.pc \in Written => Due(r) <= changes /\ Due(r) \in Nat
      BY DEF RequestOK, AskedOK, Due
  <2>5. r.body # <<>> /\ r.pc \in Written => Due(r) <= changes' /\ Due(r) # changes'
      BY <1>2, <2>4
  <2>6. AskedOK(r)'
      BY <1>2, <2>2, <2>3, <2>5 DEF RequestOK, AskedOK, Due
  <2> QED
      BY <2>1, <2>6 DEF RequestOK, PatchPlace
<1> QED
    BY <1>1, <1>2

\* One request takes a step.
LEMMA RequestSteps ==
    ASSUME PatchInv, NEW c \in Patchers, NEW s, patch' = [patch EXCEPT ![c] = s],
           RequestOK(s)', ServiceOK', changes' \in Nat, SameSystem \/ changes' = changes + 1
    PROVE  PatchInv'
<1>1. /\ DOMAIN patch' = Patchers /\ patch'[c] = s
      /\ \A d \in Patchers : d # c => patch'[d] = patch[d]
    BY DEF PatchInv
<1>2. ASSUME NEW d \in Patchers
      PROVE  RequestOK(patch[d])'
  <2>1. CASE d = c
      BY <1>1, <2>1
  <2>2. CASE d # c
    <3>1. PICK r : r = patch[d]
        OBVIOUS
    <3>2. RequestOK(r) /\ changes \in Nat
        BY <3>1 DEF PatchInv, RequestOK
    <3>3. RequestOK(r)'
        BY <3>2, Overtaken
    <3> QED
        BY <1>1, <2>2, <3>1, <3>3
  <2> QED
      BY <2>1, <2>2
<1> QED
    BY <1>1, <1>2 DEF PatchInv, RequestOK

\* One that changes nothing that an ETag stands for.
LEMMA RequestStays ==
    ASSUME PatchInv, NEW c \in Patchers, SameSystem, seen' = seen, NEW s,
           patch' = [patch EXCEPT ![c] = s], RequestOK(s)
    PROVE  PatchInv'
<1>1. ServiceOK' /\ changes' \in Nat /\ changes \in Nat
    BY DEF PatchInv, ServiceOK, SameSystem
<1>2. RequestOK(s)'
    BY <1>1, Overtaken
<1> QED
    BY <1>1, <1>2, RequestSteps

\* One that looks.
LEMMA RequestLooks ==
    ASSUME PatchInv, NEW c \in Patchers, NEW p, Look(c, p), NEW s,
           patch' = [patch EXCEPT ![c] = s], RequestOK(s)
    PROVE  PatchInv'
<1>1. SameSystem /\ seen' = seen
    BY DEF Look, SameSystem, serviceVars, vmVars
<1> QED
    BY <1>1, RequestStays

\* A request is refused.
LEMMA RefuseKeeps ==
    ASSUME PatchInv, NEW c \in Patchers, NEW p, Look(c, p), p \notin Reading, NEW status,
           status = 412 => patch[c].read < changes, Refuse(c, status)
    PROVE  PatchInv'
<1>1. PICK r : r = patch[c]
    OBVIOUS
<1>2. RequestOK(r) /\ r.pc = p /\ DOMAIN r = DOMAIN NoPatch
    BY <1>1 DEF PatchInv, RequestOK, Look
<1>3. PICK s : s = With(With(r, Over), [code |-> status])
    OBVIOUS
<1>4. /\ DOMAIN s = DOMAIN NoPatch /\ s.pc = "idle" /\ s.body = <<>> /\ s.wrote = FALSE
      /\ s.code = status /\ s.began = 0 /\ s.read = r.read /\ s.tag = r.tag
    BY <1>2, <1>3 DEF With, NoPatch, Over
<1>5. patch' = [patch EXCEPT ![c] = s]
    BY <1>1, <1>3 DEF Refuse
<1>6. PatchPlace(s)
    BY <1>4 DEF PatchPlace, Unwritten, Written, Matching, Reading
<1>7. TagOK(s)
    BY <1>1, <1>2, <1>4 DEF RequestOK, TagOK, Reading
<1>8. AskedOK(s)
    BY <1>4 DEF AskedOK, Unwritten, Written, Matching, Reading
<1> QED
    BY <1>4, <1>5, <1>6, <1>7, <1>8, RequestLooks DEF RequestOK

\* A body that names nothing of the boot asks for what there is.
LEMMA NothingAsked ==
    ASSUME ServiceOK, NEW b, ~HasBoot(b)
    PROVE  Patched(SystemNow, b) = SystemNow
<1>1. b.order = Absent /\ b.enabled = Absent /\ b.target = Absent
    BY DEF HasBoot
<1>2. Merged(override, b) = override
    BY <1>1 DEF Merged, ServiceOK
<1> QED
    BY <1>1, <1>2 DEF Patched, SystemNow

\* A request whose ETag is found to fit, or that has none, is about to be served.
LEMMA Served ==
    ASSUME ServiceOK, changes \in Nat, NEW s, s.pc = AfterMatch(s.body), s.code = 0,
           s.wrote = FALSE, s.began \in Nat, s.began <= changes,
           s.began = changes => s.base = SystemNow
    PROVE  PatchPlace(s) /\ AskedOK(s) /\ s.pc \notin Reading \cup {"match_override", "match_order"}
<1>1. /\ s.pc \in {"set_order", "merge", "led", "bad"}
      /\ s.pc = "set_order" => s.body.order # Absent
      /\ s.pc = "merge" => s.body.order = Absent /\ HasBoot(s.body)
      /\ s.pc = "led" => ~HasBoot(s.body)
    BY DEF AfterMatch, HasBoot
<1>2. PatchPlace(s)
    BY <1>1 DEF PatchPlace, Unwritten, Written, Matching, Reading
<1>3. s.pc = "led" /\ s.began = changes => SystemNow = Patched(s.base, s.body)
    BY <1>1, NothingAsked
<1>4. AskedOK(s)
    BY <1>1, <1>3 DEF AskedOK, Unwritten, Written, Matching, Reading, Due
<1> QED
    BY <1>1, <1>2, <1>4 DEF Reading

LEMMA GetSystemKeeps ==
    ASSUME PatchInv, NEW c \in Patchers, GetSystem(c)
    PROVE  PatchInv'
<1>1. PICK r : r = patch[c]
    OBVIOUS
<1>2. RequestOK(r) /\ r.pc = "idle" /\ DOMAIN r = DOMAIN NoPatch /\ Look(c, "idle")
    BY <1>1 DEF PatchInv, RequestOK, GetSystem, Look
<1>3. PICK s : s = With(With(r, [code |-> 0]), [pc |-> "get_status"])
    OBVIOUS
<1>4. /\ DOMAIN s = DOMAIN NoPatch /\ s.pc = "get_status" /\ s.code = 0 /\ s.body = r.body
      /\ s.wrote = r.wrote /\ s.began = r.began /\ s.read = r.read /\ s.tag = r.tag
    BY <1>2, <1>3 DEF With, NoPatch
<1>5. patch' = [patch EXCEPT ![c] = s]
    BY <1>1, <1>3 DEF GetSystem, PatchStep
<1>6. PatchPlace(s)
    BY <1>2, <1>4 DEF RequestOK, PatchPlace, Unwritten, Written, Matching, Reading
<1>7. TagOK(s)
    BY <1>2, <1>4 DEF RequestOK, TagOK, Reading
<1>8. AskedOK(s)
    BY <1>2, <1>4 DEF RequestOK, PatchPlace, AskedOK, Unwritten, Written, Matching, Reading
<1> QED
    BY <1>2, <1>4, <1>5, <1>6, <1>7, <1>8, RequestLooks DEF RequestOK

LEMMA PatchSystemKeeps ==
    ASSUME PatchInv, NEW c \in Patchers, PatchSystem(c)
    PROVE  PatchInv'
<1>1. PICK r : r = patch[c]
    OBVIOUS
<1>2. RequestOK(r) /\ r.pc = "idle" /\ DOMAIN r = DOMAIN NoPatch /\ Look(c, "idle")
    BY <1>1 DEF PatchInv, RequestOK, PatchSystem, Look
<1>3. PICK b \in Bodies, m \in {NoTag, r.tag} :
          PatchStep(c, IF m = NoTag THEN AfterMatch(b) ELSE "match_status",
                    [body |-> b, match |-> m, code |-> 0, began |-> changes,
                     base |-> [over |-> override, order |-> bootOrder]])
    BY <1>1 DEF PatchSystem
<1>4. PICK p, s : /\ p = IF m = NoTag THEN AfterMatch(b) ELSE "match_status"
                  /\ s = With(With(r, [body |-> b, match |-> m, code |-> 0, began |-> changes,
                                       base |-> [over |-> override, order |-> bootOrder]]),
                              [pc |-> p])
    OBVIOUS
<1>5. /\ DOMAIN s = DOMAIN NoPatch /\ s.pc = p /\ s.code = 0 /\ s.body = b /\ s.match = m
      /\ s.wrote = r.wrote /\ s.began = changes /\ s.read = r.read /\ s.tag = r.tag
      /\ s.base = SystemNow
    BY <1>2, <1>4 DEF With, NoPatch, SystemNow
<1>6. patch' = [patch EXCEPT ![c] = s]
    BY <1>1, <1>3, <1>4 DEF PatchStep
<1>7. s.wrote = FALSE /\ ServiceOK /\ changes \in Nat
    BY <1>2, <1>5 DEF RequestOK, PatchPlace, PatchInv, Written, Reading
<1>8. PatchPlace(s) /\ AskedOK(s) /\ s.pc \notin Reading \cup {"match_override", "match_order"}
  <2>1. s.began \in Nat /\ s.began <= changes /\ (s.began = changes => s.base = SystemNow)
      BY <1>5, <1>7
  <2>2. CASE m = NoTag
    <3>1. s.pc = AfterMatch(s.body) /\ s.code = 0
        BY <1>4, <1>5, <2>2
    <3> QED
        BY <1>7, <2>1, <3>1, Served
  <2>3. CASE m # NoTag
    <3>1. s.pc = "match_status" /\ s.match = s.tag /\ s.tag # NoTag /\ s.code = 0
        BY <1>4, <1>5, <2>3
    <3>2. PatchPlace(s)
        BY <1>7, <3>1 DEF PatchPlace, Unwritten, Written, Matching, Reading
    <3>3. AskedOK(s)
        BY <2>1, <3>1 DEF AskedOK, Unwritten, Written, Matching, Reading
    <3> QED
        BY <3>1, <3>2, <3>3 DEF Reading
  <2> QED
      BY <2>2, <2>3
<1>9. TagOK(s)
    BY <1>2, <1>5, <1>8 DEF RequestOK, TagOK, Reading
<1> QED
    BY <1>2, <1>5, <1>6, <1>8, <1>9, RequestLooks DEF RequestOK

\* What QMP reports of the VM, if it can be asked, is true.
LEMMA PowerReported ==
    ASSUME ServiceOK, NEW s \in PowerReports, s # "err"
    PROVE  s = PowerNow
    BY DEF ServiceOK, PowerReports, PowerNow

LEMMA MatchStatusKeeps ==
    ASSUME PatchInv, NEW c \in Patchers, MatchStatus(c)
    PROVE  PatchInv'
<1>1. PICK r : r = patch[c]
    OBVIOUS
<1>2. /\ RequestOK(r) /\ r.pc = "match_status" /\ DOMAIN r = DOMAIN NoPatch
      /\ Look(c, "match_status") /\ ServiceOK
    BY <1>1 DEF PatchInv, RequestOK, MatchStatus, ReadStatus, Look
<1>3. CASE Refuse(c, 500)
    BY <1>2, <1>3, RefuseKeeps DEF Reading
<1>4. ASSUME NEW w \in PowerReports, w # "err", PatchStep(c, "match_override", [power |-> w])
      PROVE  PatchInv'
  <2>1. PICK s : s = With(With(r, [power |-> w]), [pc |-> "match_override"])
      OBVIOUS
  <2>2. /\ DOMAIN s = DOMAIN NoPatch /\ s.pc = "match_override" /\ s.code = r.code
        /\ s.body = r.body /\ s.match = r.match /\ s.wrote = r.wrote /\ s.began = r.began
        /\ s.read = r.read /\ s.tag = r.tag /\ s.base = r.base /\ s.power = w
      BY <1>2, <2>1 DEF With, NoPatch
  <2>3. patch' = [patch EXCEPT ![c] = s]
      BY <1>1, <1>4, <2>1 DEF PatchStep
  <2>4. PatchPlace(s)
      BY <1>2, <2>2 DEF RequestOK, PatchPlace, Unwritten, Written, Matching, Reading
  <2>5. TagOK(s)
      BY <1>2, <1>4, <2>2, PowerReported DEF RequestOK, TagOK, Reading
  <2>6. AskedOK(s)
      BY <1>2, <2>2 DEF RequestOK, AskedOK, Unwritten, Written, Matching, Reading
  <2> QED
      BY <1>2, <2>2, <2>3, <2>4, <2>5, <2>6, RequestLooks DEF RequestOK
<1> QED
    BY <1>3, <1>4 DEF MatchStatus, ReadStatus

LEMMA MatchOverrideKeeps ==
    ASSUME PatchInv, NEW c \in Patchers, MatchOverride(c)
    PROVE  PatchInv'
<1>1. PICK r : r = patch[c]
    OBVIOUS
<1>2. /\ RequestOK(r) /\ r.pc = "match_override" /\ DOMAIN r = DOMAIN NoPatch
      /\ Look(c, "match_override")
    BY <1>1 DEF PatchInv, RequestOK, MatchOverride, Look
<1>3. PICK s : s = With(With(r, [over |-> override]), [pc |-> "match_order"])
    OBVIOUS
<1>4. /\ DOMAIN s = DOMAIN NoPatch /\ s.pc = "match_order" /\ s.code = r.code
      /\ s.body = r.body /\ s.match = r.match /\ s.wrote = r.wrote /\ s.began = r.began
      /\ s.read = r.read /\ s.tag = r.tag /\ s.base = r.base /\ s.power = r.power
      /\ s.over = override
    BY <1>2, <1>3 DEF With, NoPatch
<1>5. patch' = [patch EXCEPT ![c] = s]
    BY <1>1, <1>3 DEF MatchOverride, PatchStep
<1>6. PatchPlace(s)
    BY <1>2, <1>4 DEF RequestOK, PatchPlace, Unwritten, Written, Matching, Reading
<1>7. TagOK(s)
    BY <1>2, <1>4 DEF RequestOK, TagOK, Reading
<1>8. AskedOK(s)
    BY <1>2, <1>4 DEF RequestOK, AskedOK, Unwritten, Written, Matching, Reading
<1> QED
    BY <1>2, <1>4, <1>5, <1>6, <1>7, <1>8, RequestLooks DEF RequestOK

\* An ETag of a system that has not changed is found to fit.
LEMMA MatchOrderKeeps ==
    ASSUME PatchInv, NEW c \in Patchers, MatchOrder(c)
    PROVE  PatchInv'
<1>1. PICK r : r = patch[c]
    OBVIOUS
<1>2. /\ RequestOK(r) /\ r.pc = "match_order" /\ DOMAIN r = DOMAIN NoPatch
      /\ Look(c, "match_order") /\ ServiceOK /\ changes \in Nat
    BY <1>1 DEF PatchInv, RequestOK, MatchOrder, Look
<1>3. CASE r.match = ETag(r.power, r.over, bootOrder)
  <2>1. PICK s : s = [r EXCEPT !.pc = AfterMatch(r.body)]
      OBVIOUS
  <2>2. /\ DOMAIN s = DOMAIN NoPatch /\ s.pc = AfterMatch(r.body) /\ s.code = r.code
        /\ s.body = r.body /\ s.match = r.match /\ s.wrote = r.wrote /\ s.began = r.began
        /\ s.read = r.read /\ s.tag = r.tag /\ s.base = r.base
      BY <1>2, <2>1 DEF NoPatch
  <2>3. patch' = [patch EXCEPT ![c] = s]
      BY <1>1, <1>3, <2>1 DEF MatchOrder, PatchGoto
  <2>4. /\ s.code = 0 /\ s.wrote = FALSE
      BY <1>2, <2>2 DEF RequestOK, PatchPlace, Written, Reading
  <2>5. /\ s.began \in Nat /\ s.began <= changes /\ (s.began = changes => s.base = SystemNow)
      BY <1>2, <2>2 DEF RequestOK, AskedOK, Unwritten, Matching
  <2>6. s.pc = AfterMatch(s.body)
      BY <2>2
  <2>7. PatchPlace(s) /\ AskedOK(s) /\ s.pc \notin Reading \cup {"match_override", "match_order"}
      BY <1>2, <2>4, <2>5, <2>6, Served
  <2>8. TagOK(s)
      BY <1>2, <2>2, <2>7 DEF RequestOK, TagOK, Reading
  <2> QED
      BY <1>2, <2>2, <2>3, <2>7, <2>8, RequestLooks DEF RequestOK
<1>4. CASE r.match # ETag(r.power, r.over, bootOrder)
  <2>1. r.match = r.tag /\ r.tag # NoTag
      BY <1>2 DEF RequestOK, PatchPlace, Matching
  <2>2. r.read = changes => r.match = ETag(r.power, r.over, bootOrder)
      BY <1>2, <2>1 DEF RequestOK, TagOK, Reading
  <2>3. patch[c].read < changes
      BY <1>1, <1>2, <1>4, <2>2 DEF RequestOK, TagOK
  <2>4. Refuse(c, 412)
      BY <1>1, <1>4 DEF MatchOrder
  <2> QED
      BY <1>2, <2>3, <2>4, RefuseKeeps DEF Reading
<1> QED
    BY <1>3, <1>4

LEMMA BadRequestKeeps ==
    ASSUME PatchInv, NEW c \in Patchers, BadRequest(c)
    PROVE  PatchInv'
    BY RefuseKeeps DEF BadRequest, Reading

\* A PATCH of the boot order sets what it names, and keeps the rest.
LEMMA SetBootOrderKeeps ==
    ASSUME PatchInv, NEW c \in Patchers, SetBootOrder(c)
    PROVE  PatchInv'
<1>1. PICK r : r = patch[c]
    OBVIOUS
<1>2. RequestOK(r) /\ r.pc = "set_order" /\ DOMAIN r = DOMAIN NoPatch /\ changes \in Nat
    BY <1>1 DEF PatchInv, RequestOK, SetBootOrder
<1>3. /\ changes' = changes + 1 /\ bootOrder' = r.body.order
      /\ UNCHANGED <<vm, seen, override, paused>>
    BY <1>1 DEF SetBootOrder, Changed, serviceVars, vmVars
<1>4. PICK s : s = With(With(r, [wrote |-> TRUE]), [pc |-> AfterBoot(r.body)])
    OBVIOUS
<1>5. /\ DOMAIN s = DOMAIN NoPatch /\ s.pc = AfterBoot(r.body) /\ s.code = r.code
      /\ s.body = r.body /\ s.wrote = TRUE /\ s.began = r.began
      /\ s.read = r.read /\ s.tag = r.tag /\ s.base = r.base
    BY <1>2, <1>4 DEF With, NoPatch
<1>6. patch' = [patch EXCEPT ![c] = s]
    BY <1>1, <1>4 DEF SetBootOrder, PatchStep
<1>7. s.pc \in {"led", "get_status"} /\ s.code = 0 /\ r.body.order # Absent
    BY <1>2, <1>5 DEF AfterBoot, RequestOK, PatchPlace
<1>8. PatchPlace(s)' /\ TagOK(s)'
  <2>1. PatchPlace(s)'
      BY <1>5, <1>7 DEF PatchPlace, Unwritten, Written, Matching, Reading
  <2>2. TagOK(s)'
      BY <1>2, <1>3, <1>5, <1>7 DEF RequestOK, TagOK
  <2> QED
      BY <2>1, <2>2
<1>9. AskedOK(s)'
  <2>1. /\ r.began \in Nat /\ r.began <= changes
        /\ r.began = changes => r.base = SystemNow
      BY <1>2 DEF RequestOK, AskedOK, Unwritten
  <2>2. Due(s) = r.began + 1
      BY <1>5, <1>7 DEF Due, HasBoot
  <2>3. r.began = changes => SystemNow' = Patched(s.base, s.body)
      BY <1>3, <1>5, <1>7, <2>1 DEF SystemNow, Patched
  <2>4. Due(s) <= changes' /\ (Due(s) = changes' => SystemNow' = Patched(s.base, s.body))
      BY <1>2, <1>3, <2>1, <2>2, <2>3
  <2> QED
      BY <1>5, <1>7, <2>1, <2>4 DEF AskedOK, Unwritten, Written, Matching, Reading, Due
<1>10. ServiceOK' /\ changes' \in Nat
    BY <1>2, <1>3 DEF PatchInv, ServiceOK
<1>11. RequestOK(s)'
    BY <1>5, <1>8, <1>9 DEF RequestOK
<1> QED
    BY <1>3, <1>6, <1>10, <1>11, RequestSteps

LEMMA MergeOverrideKeeps ==
    ASSUME PatchInv, NEW c \in Patchers, MergeOverride(c)
    PROVE  PatchInv'
<1>1. PICK r : r = patch[c]
    OBVIOUS
<1>2. /\ RequestOK(r) /\ r.pc = "merge" /\ DOMAIN r = DOMAIN NoPatch /\ Look(c, "merge")
    BY <1>1 DEF PatchInv, RequestOK, MergeOverride, Look
<1>3. PICK s : s = With(With(r, [over |-> Merged(override, r.body)]), [pc |-> "set_override"])
    OBVIOUS
<1>4. /\ DOMAIN s = DOMAIN NoPatch /\ s.pc = "set_override" /\ s.code = r.code
      /\ s.body = r.body /\ s.match = r.match /\ s.wrote = r.wrote /\ s.began = r.began
      /\ s.read = r.read /\ s.tag = r.tag /\ s.base = r.base
      /\ s.over = Merged(override, r.body)
    BY <1>2, <1>3 DEF With, NoPatch
<1>5. patch' = [patch EXCEPT ![c] = s]
    BY <1>1, <1>3 DEF MergeOverride, PatchStep
<1>6. PatchPlace(s)
    BY <1>2, <1>4 DEF RequestOK, PatchPlace, Unwritten, Written, Matching, Reading
<1>7. TagOK(s)
    BY <1>2, <1>4 DEF RequestOK, TagOK, Reading
<1>8. AskedOK(s)
  <2>1. s.over = [enabled |-> s.over.enabled, target |-> s.over.target]
      BY <1>4 DEF Merged
  <2> QED
      BY <1>2, <1>4, <2>1 DEF RequestOK, AskedOK, Unwritten, Written, Matching, Reading
<1> QED
    BY <1>2, <1>4, <1>5, <1>6, <1>7, <1>8, RequestLooks DEF RequestOK

\* A PATCH of the override sets what it names, and keeps the rest, if it can be booted
\* from, and is refused as a whole otherwise.
LEMMA SetOverrideKeeps ==
    ASSUME PatchInv, NEW c \in Patchers, SetOverride(c)
    PROVE  PatchInv'
<1>1. PICK r : r = patch[c]
    OBVIOUS
<1>2. RequestOK(r) /\ r.pc = "set_override" /\ DOMAIN r = DOMAIN NoPatch /\ changes \in Nat
    BY <1>1 DEF PatchInv, RequestOK, SetOverride
<1>3. UNCHANGED <<paused, bootOrder, led>>
    BY DEF SetOverride
<1>4. CASE ~Bootable(r.over) /\ Refuse(c, 400) /\ UNCHANGED <<serviceVars, changes>>
  <2>1. Look(c, "set_override")
      BY <1>1, <1>2, <1>3, <1>4 DEF Look
  <2> QED
      BY <1>4, <2>1, RefuseKeeps DEF Reading
<1>5. CASE /\ Bootable(r.over) /\ Changed /\ SetBootOverride(r.over)
           /\ PatchStep(c, AfterBoot(r.body), [wrote |-> TRUE])
  <2>1. changes' = changes + 1 /\ override' = r.over /\ UNCHANGED <<vm, seen, bootOrder, paused>>
      BY <1>3, <1>5 DEF SetBootOverride, Changed, vmVars
  <2>2. PICK s : s = With(With(r, [wrote |-> TRUE]), [pc |-> AfterBoot(r.body)])
      OBVIOUS
  <2>3. /\ DOMAIN s = DOMAIN NoPatch /\ s.pc = AfterBoot(r.body) /\ s.code = r.code
        /\ s.body = r.body /\ s.wrote = TRUE /\ s.began = r.began
        /\ s.read = r.read /\ s.tag = r.tag /\ s.base = r.base
      BY <1>2, <2>2 DEF With, NoPatch
  <2>4. patch' = [patch EXCEPT ![c] = s]
      BY <1>1, <1>5, <2>2 DEF PatchStep
  <2>5. /\ s.pc \in {"led", "get_status"} /\ s.code = 0
        /\ r.body.order = Absent /\ HasBoot(r.body)
      BY <1>2, <2>3 DEF AfterBoot, RequestOK, PatchPlace
  <2>6. PatchPlace(s)'
      BY <2>3, <2>5 DEF PatchPlace, Unwritten, Written, Matching, Reading
  <2>7. TagOK(s)'
      BY <1>2, <2>1, <2>3, <2>5 DEF RequestOK, TagOK
  <2>8. AskedOK(s)'
    <3>1. /\ r.began \in Nat /\ r.began <= changes
          /\ r.began = changes => r.base = SystemNow /\ r.over = Merged(override, r.body)
        BY <1>2 DEF RequestOK, AskedOK, Unwritten
    <3>2. Due(s) = r.began + 1
        BY <2>3, <2>5 DEF Due
    <3>3. r.began = changes => SystemNow' = Patched(s.base, s.body)
        BY <2>1, <2>3, <2>5, <3>1 DEF SystemNow, Patched
    <3>4. Due(s) <= changes' /\ (Due(s) = changes' => SystemNow' = Patched(s.base, s.body))
        BY <1>2, <2>1, <3>1, <3>2, <3>3
    <3> QED
        BY <2>3, <2>5, <3>1, <3>4 DEF AskedOK, Unwritten, Written, Matching, Reading, Due
  <2>9. ServiceOK' /\ changes' \in Nat
    <3>1. r.over = [enabled |-> r.over.enabled, target |-> r.over.target]
        BY <1>2 DEF RequestOK, AskedOK, Unwritten
    <3>2. r.over \in [enabled: Enabled, target: Targets]
        BY <1>5, <3>1 DEF Bootable
    <3> QED
        BY <1>2, <2>1, <3>2 DEF PatchInv, ServiceOK
  <2>10. RequestOK(s)'
      BY <2>3, <2>6, <2>7, <2>8 DEF RequestOK
  <2> QED
      BY <2>1, <2>4, <2>9, <2>10, RequestSteps
<1> QED
    BY <1>1, <1>4, <1>5 DEF SetOverride

LEMMA SetLedKeeps ==
    ASSUME PatchInv, NEW c \in Patchers, SetLed(c)
    PROVE  PatchInv'
<1>1. PICK r : r = patch[c]
    OBVIOUS
<1>2. RequestOK(r) /\ r.pc = "led" /\ DOMAIN r = DOMAIN NoPatch
    BY <1>1 DEF PatchInv, RequestOK, SetLed
<1>3. SameSystem /\ seen' = seen
    BY DEF SetLed, SameSystem, serviceVars, vmVars
<1>4. PICK s : s = With(With(r, [wrote |-> TRUE]), [pc |-> "get_status"])
    OBVIOUS
<1>5. /\ DOMAIN s = DOMAIN NoPatch /\ s.pc = "get_status" /\ s.code = r.code
      /\ s.body = r.body /\ s.wrote = TRUE /\ s.began = r.began
      /\ s.read = r.read /\ s.tag = r.tag /\ s.base = r.base
    BY <1>2, <1>4 DEF With, NoPatch
<1>6. patch' = [patch EXCEPT ![c] = s]
    BY <1>1, <1>4 DEF SetLed, PatchStep
<1>7. PatchPlace(s)
    BY <1>2, <1>5 DEF RequestOK, PatchPlace, Unwritten, Written, Matching, Reading
<1>8. TagOK(s)
    BY <1>2, <1>5 DEF RequestOK, TagOK, Reading
<1>9. AskedOK(s)
    BY <1>2, <1>5 DEF RequestOK, AskedOK, Due, Unwritten, Written, Matching, Reading
<1>10. RequestOK(s)
    BY <1>5, <1>7, <1>8, <1>9 DEF RequestOK
<1> QED
    BY <1>3, <1>6, <1>10, RequestStays

\* An answer, with its ETag, is begun.
LEMMA GetStatusKeeps ==
    ASSUME PatchInv, NEW c \in Patchers, GetStatus(c)
    PROVE  PatchInv'
<1>1. PICK r : r = patch[c]
    OBVIOUS
<1>2. /\ RequestOK(r) /\ r.pc = "get_status" /\ DOMAIN r = DOMAIN NoPatch
      /\ Look(c, "get_status") /\ ServiceOK /\ changes \in Nat
    BY <1>1 DEF PatchInv, RequestOK, GetStatus, Look
<1>3. CASE Refuse(c, 500)
    BY <1>2, <1>3, RefuseKeeps DEF Reading
<1>4. ASSUME NEW w \in PowerReports, w # "err",
             PatchStep(c, "get_override", [power |-> w, read |-> changes])
      PROVE  PatchInv'
  <2>1. PICK s : s = With(With(r, [power |-> w, read |-> changes]), [pc |-> "get_override"])
      OBVIOUS
  <2>2. /\ DOMAIN s = DOMAIN NoPatch /\ s.pc = "get_override" /\ s.code = r.code
        /\ s.body = r.body /\ s.wrote = r.wrote /\ s.began = r.began
        /\ s.read = changes /\ s.base = r.base /\ s.power = w
      BY <1>2, <2>1 DEF With, NoPatch
  <2>3. patch' = [patch EXCEPT ![c] = s]
      BY <1>1, <1>4, <2>1 DEF PatchStep
  <2>4. s.code = 0 /\ w = PowerNow
      BY <1>2, <1>4, <2>2, PowerReported DEF RequestOK, PatchPlace
  <2>5. PatchPlace(s)
      BY <1>2, <2>2 DEF RequestOK, PatchPlace, Unwritten, Written, Matching, Reading
  <2>6. TagOK(s)
      BY <1>2, <2>2, <2>4 DEF TagOK, Reading
  <2>7. AskedOK(s)
      BY <1>2, <2>2 DEF RequestOK, AskedOK, Due, Unwritten, Written, Matching, Reading
  <2>8. RequestOK(s)
      BY <2>2, <2>5, <2>6, <2>7 DEF RequestOK
  <2> QED
      BY <1>2, <2>3, <2>8, RequestLooks
<1> QED
    BY <1>3, <1>4 DEF GetStatus

LEMMA GetOverrideKeeps ==
    ASSUME PatchInv, NEW c \in Patchers, GetOverride(c)
    PROVE  PatchInv'
<1>1. PICK r : r = patch[c]
    OBVIOUS
<1>2. /\ RequestOK(r) /\ r.pc = "get_override" /\ DOMAIN r = DOMAIN NoPatch
      /\ Look(c, "get_override")
    BY <1>1 DEF PatchInv, RequestOK, GetOverride, Look
<1>3. PICK s : s = With(With(r, [over |-> override]), [pc |-> "get_order"])
    OBVIOUS
<1>4. /\ DOMAIN s = DOMAIN NoPatch /\ s.pc = "get_order" /\ s.code = r.code
      /\ s.body = r.body /\ s.wrote = r.wrote /\ s.began = r.began /\ s.read = r.read
      /\ s.base = r.base /\ s.power = r.power /\ s.over = override
    BY <1>2, <1>3 DEF With, NoPatch
<1>5. patch' = [patch EXCEPT ![c] = s]
    BY <1>1, <1>3 DEF GetOverride, PatchStep
<1>6. PatchPlace(s)
    BY <1>2, <1>4 DEF RequestOK, PatchPlace, Unwritten, Written, Matching, Reading
<1>7. TagOK(s)
    BY <1>2, <1>4 DEF RequestOK, TagOK, Reading
<1>8. AskedOK(s)
    BY <1>2, <1>4 DEF RequestOK, AskedOK, Due, Unwritten, Written, Matching, Reading
<1>9. RequestOK(s)
    BY <1>4, <1>6, <1>7, <1>8 DEF RequestOK
<1> QED
    BY <1>2, <1>5, <1>9, RequestLooks

LEMMA GetOrderKeeps ==
    ASSUME PatchInv, NEW c \in Patchers, GetOrder(c)
    PROVE  PatchInv'
<1>1. PICK r : r = patch[c]
    OBVIOUS
<1>2. /\ RequestOK(r) /\ r.pc = "get_order" /\ DOMAIN r = DOMAIN NoPatch /\ Look(c, "get_order")
    BY <1>1 DEF PatchInv, RequestOK, GetOrder, Look
<1>3. PICK s : s = With(With(r, [order |-> bootOrder]), [pc |-> "respond"])
    OBVIOUS
<1>4. /\ DOMAIN s = DOMAIN NoPatch /\ s.pc = "respond" /\ s.code = r.code
      /\ s.body = r.body /\ s.wrote = r.wrote /\ s.began = r.began /\ s.read = r.read
      /\ s.base = r.base /\ s.power = r.power /\ s.over = r.over /\ s.order = bootOrder
    BY <1>2, <1>3 DEF With, NoPatch
<1>5. patch' = [patch EXCEPT ![c] = s]
    BY <1>1, <1>3 DEF GetOrder, PatchStep
<1>6. PatchPlace(s)
    BY <1>2, <1>4 DEF RequestOK, PatchPlace, Unwritten, Written, Matching, Reading
<1>7. TagOK(s)
    BY <1>2, <1>4 DEF RequestOK, TagOK, Reading
<1>8. AskedOK(s)
    BY <1>2, <1>4 DEF RequestOK, AskedOK, Due, Unwritten, Written, Matching, Reading
<1>9. RequestOK(s)
    BY <1>4, <1>6, <1>7, <1>8 DEF RequestOK
<1> QED
    BY <1>2, <1>5, <1>9, RequestLooks

\* An ETag is sent, of the system that has been read.
LEMMA RespondKeeps ==
    ASSUME PatchInv, NEW c \in Patchers, Respond(c)
    PROVE  PatchInv'
<1>1. PICK r : r = patch[c]
    OBVIOUS
<1>2. /\ RequestOK(r) /\ r.pc = "respond" /\ DOMAIN r = DOMAIN NoPatch /\ Look(c, "respond")
    BY <1>1 DEF PatchInv, RequestOK, Respond, Look
<1>3. PICK t, s : /\ t = ETag(r.power, r.over, r.order)
                  /\ s = With(With(r, Over), [code |-> 200, tag |-> t])
    OBVIOUS
<1>4. /\ DOMAIN s = DOMAIN NoPatch /\ s.pc = "idle" /\ s.body = <<>> /\ s.wrote = FALSE
      /\ s.code = 200 /\ s.began = 0 /\ s.read = r.read /\ s.tag = t
    BY <1>2, <1>3 DEF With, NoPatch, Over
<1>5. patch' = [patch EXCEPT ![c] = s]
    BY <1>1, <1>3 DEF Respond
<1>6. PatchPlace(s)
    BY <1>4 DEF PatchPlace, Unwritten, Written, Matching, Reading
<1>7. TagOK(s)
    BY <1>2, <1>3, <1>4 DEF RequestOK, TagOK, Reading
<1>8. AskedOK(s)
    BY <1>4 DEF AskedOK, Unwritten, Written, Matching, Reading
<1>9. RequestOK(s)
    BY <1>4, <1>6, <1>7, <1>8 DEF RequestOK
<1> QED
    BY <1>2, <1>5, <1>9, RequestLooks

LEMMA PatchHandlerKeeps ==
    ASSUME PatchInv, NEW c \in Patchers, PatchHandler(c)
    PROVE  PatchInv'
    BY GetSystemKeeps, PatchSystemKeeps, MatchStatusKeeps, MatchOverrideKeeps, MatchOrderKeeps,
       BadRequestKeeps, SetBootOrderKeeps, MergeOverrideKeeps, SetOverrideKeeps, SetLedKeeps,
       GetStatusKeeps, GetOverrideKeeps, GetOrderKeeps, RespondKeeps DEF PatchHandler

-----------------------------------------------------------------------------
(* What a request is answered                                              *)

Reported == {"On", "Off"}

\* One that goes on is not answered yet.
LEMMA StepAnswers ==
    ASSUME PatchInv, NEW c \in Patchers, NEW p, NEW q, PatchStep(c, p, q),
           patch[c].pc # "idle" \/ "code" \in DOMAIN q, "code" \in DOMAIN q => q.code = 0,
           "power" \in DOMAIN q => q.power \in Reported
    PROVE  patch'[c].code = 0 /\ (patch[c].power \in Reported => patch'[c].power \in Reported)
<1>1. PICK r : r = patch[c]
    OBVIOUS
<1>2. DOMAIN r = DOMAIN NoPatch /\ (r.pc # "idle" => r.code = 0) /\ c \in DOMAIN patch
    BY <1>1 DEF PatchInv, PatchPlace
<1>3. PICK s : s = With(With(r, q), [pc |-> p])
    OBVIOUS
<1>4. /\ s.code = IF "code" \in DOMAIN q THEN q.code ELSE r.code
      /\ s.power = IF "power" \in DOMAIN q THEN q.power ELSE r.power
    BY <1>2, <1>3 DEF With, NoPatch
<1>5. patch'[c] = s
    BY <1>1, <1>2, <1>3 DEF PatchStep
<1> QED
    BY <1>1, <1>2, <1>4, <1>5

LEMMA RefuseAnswers ==
    ASSUME PatchInv, NEW c \in Patchers, NEW status, Refuse(c, status)
    PROVE  patch'[c].code = status /\ patch'[c].power \in Reported
<1>1. PICK r : r = patch[c]
    OBVIOUS
<1>2. DOMAIN r = DOMAIN NoPatch /\ c \in DOMAIN patch
    BY <1>1 DEF PatchInv
<1>3. PICK s : s = With(With(r, Over), [code |-> status])
    OBVIOUS
<1>4. s.code = status /\ s.power = "Off"
    BY <1>2, <1>3 DEF With, NoPatch, Over
<1>5. patch'[c] = s
    BY <1>1, <1>2, <1>3 DEF Refuse
<1> QED
    BY <1>4, <1>5 DEF Reported

LEMMA RespondAnswers ==
    ASSUME PatchInv, NEW c \in Patchers, Respond(c)
    PROVE  patch'[c].code = 200 /\ patch'[c].power \in Reported
<1>1. PICK r : r = patch[c]
    OBVIOUS
<1>2. DOMAIN r = DOMAIN NoPatch /\ c \in DOMAIN patch
    BY <1>1 DEF PatchInv
<1>3. PICK t, s : /\ t = ETag(r.power, r.over, r.order)
                  /\ s = With(With(r, Over), [code |-> 200, tag |-> t])
    OBVIOUS
<1>4. s.code = 200 /\ s.power = "Off"
    BY <1>2, <1>3 DEF With, NoPatch, Over
<1>5. patch'[c] = s
    BY <1>1, <1>2, <1>3 DEF Respond
<1> QED
    BY <1>4, <1>5 DEF Reported

\* What a request that takes a step is answered, if it is: a refusal comes before it has
\* set anything.
Answered(c) ==
    /\ patch'[c].code \in {0, 200, 400, 412, 500}
    /\ patch[c].power \in Reported => patch'[c].power \in Reported
    /\ patch'[c].code \in {400, 412} => ~patch[c].wrote /\ UNCHANGED <<override, bootOrder, led>>

LEMMA HandlerAnswers ==
    ASSUME PatchInv, NEW c \in Patchers, PatchHandler(c)
    PROVE  Answered(c)
<1>1. ASSUME NEW p, NEW q, PatchStep(c, p, q), patch[c].pc # "idle", "code" \notin DOMAIN q,
             "power" \in DOMAIN q => q.power \in Reported
      PROVE  Answered(c)
    BY <1>1, StepAnswers DEF Answered
<1>2. ASSUME NEW p, Look(c, p), Refuse(c, 500)
      PROVE  Answered(c)
    BY <1>2, RefuseAnswers DEF Answered
<1>3. ASSUME NEW status \in {400, 412}, Refuse(c, status), patch[c].pc \in Unwritten,
             UNCHANGED <<override, bootOrder, led>>
      PROVE  Answered(c)
  <2>1. ~patch[c].wrote
      BY <1>3 DEF PatchInv, PatchPlace, Unwritten, Written, Matching, Reading
  <2> QED
      BY <1>3, <2>1, RefuseAnswers DEF Answered
<1>4. \A w \in PowerReports : w # "err" => w \in Reported
    BY DEF PowerReports, Reported
<1>5. CASE GetSystem(c)
  <2>1. PatchStep(c, "get_status", [code |-> 0])
      BY <1>5 DEF GetSystem
  <2> QED
      BY <2>1, StepAnswers DEF Answered
<1>6. CASE PatchSystem(c)
  <2>1. PICK p, b, m : PatchStep(c, p, [body |-> b, match |-> m, code |-> 0, began |-> changes,
                                        base |-> [over |-> override, order |-> bootOrder]])
      BY <1>6 DEF PatchSystem
  <2> QED
      BY <2>1, StepAnswers DEF Answered
<1>7. CASE MatchStatus(c)
    BY <1>1, <1>2, <1>4, <1>7 DEF MatchStatus, ReadStatus, Look
<1>8. CASE MatchOverride(c)
    BY <1>1, <1>8 DEF MatchOverride, Look
<1>9. CASE MatchOrder(c)
  <2>1. CASE PatchGoto(c, AfterMatch(patch[c].body))
    <3>1. patch[c].code = 0
        BY <1>9 DEF MatchOrder, Look, PatchInv, PatchPlace
    <3>2. patch'[c].code = patch[c].code /\ patch'[c].power = patch[c].power
        BY <2>1 DEF PatchGoto, PatchInv, NoPatch
    <3> QED
        BY <3>1, <3>2 DEF Answered
  <2>2. CASE Refuse(c, 412)
      BY <1>3, <1>9, <2>2 DEF MatchOrder, Look, serviceVars, Unwritten, Matching
  <2> QED
      BY <1>9, <2>1, <2>2 DEF MatchOrder
<1>10. CASE BadRequest(c)
    BY <1>3, <1>10 DEF BadRequest, Look, serviceVars, Unwritten
<1>11. CASE SetBootOrder(c)
    BY <1>1, <1>11 DEF SetBootOrder
<1>12. CASE MergeOverride(c)
    BY <1>1, <1>12 DEF MergeOverride, Look
<1>13. CASE SetOverride(c)
    BY <1>1, <1>3, <1>13 DEF SetOverride, serviceVars, Unwritten
<1>14. CASE SetLed(c)
    BY <1>1, <1>14 DEF SetLed
<1>15. CASE GetStatus(c)
    BY <1>1, <1>2, <1>4, <1>15 DEF GetStatus, Look
<1>16. CASE GetOverride(c)
    BY <1>1, <1>16 DEF GetOverride, Look
<1>17. CASE GetOrder(c)
    BY <1>1, <1>17 DEF GetOrder, Look
<1>18. CASE Respond(c)
    BY <1>18, RespondAnswers DEF Answered
<1> QED
    BY <1>5, <1>6, <1>7, <1>8, <1>9, <1>10, <1>11, <1>12, <1>13, <1>14, <1>15, <1>16, <1>17,
       <1>18 DEF PatchHandler

\* A request changes only itself.
LEMMA HandlerIsLocal ==
    ASSUME PatchInv, NEW c \in Patchers, PatchHandler(c), NEW d \in Patchers, d # c
    PROVE  patch'[d] = patch[d]
<1>1. ASSUME NEW s, patch' = [patch EXCEPT ![c] = s]
      PROVE  patch'[d] = patch[d]
    BY <1>1 DEF PatchInv
<1>2. \A p, q : PatchStep(c, p, q) => patch'[d] = patch[d]
    BY <1>1 DEF PatchStep
<1>3. \A status : Refuse(c, status) => patch'[d] = patch[d]
    BY <1>1 DEF Refuse
<1>4. \A p : PatchGoto(c, p) => patch'[d] = patch[d]
    BY DEF PatchGoto, PatchInv
<1>5. Respond(c) => patch'[d] = patch[d]
    BY <1>1 DEF Respond
<1> QED
    BY <1>2, <1>3, <1>4, <1>5 DEF PatchHandler, GetSystem, PatchSystem, MatchStatus, ReadStatus,
       MatchOverride, MatchOrder, BadRequest, SetBootOrder, MergeOverride, SetOverride, SetLed,
       GetStatus, GetOverride, GetOrder

-----------------------------------------------------------------------------
(* The system                                                              *)

RedfishInv == PatchInv /\ MediaInv

LEMMA PatchHandlerKeepsVm ==
    ASSUME NEW c \in Patchers, PatchHandler(c)
    PROVE  UNCHANGED vmVars
    BY DEF PatchHandler, GetSystem, PatchSystem, MatchStatus, ReadStatus, MatchOverride,
       MatchOrder, BadRequest, SetBootOrder, MergeOverride, SetOverride, SetBootOverride, SetLed,
       GetStatus, GetOverride, GetOrder, Respond, Look, serviceVars

LEMMA MediaHandlerKeepsService ==
    ASSUME NEW c \in MediaClients, MediaHandler(c)
    PROVE  UNCHANGED serviceVars
    BY DEF MediaHandler, InsertMedia, InsertLocal, FetchRefused, CreateFile, CopyFails, CopyEnds,
       SetMedia, BlockdevChangeMedium, EjectMedia, ClearMedia, RemoveFile, BlockdevRemoveMedium,
       SetCurrentMedia, BeginMedia

\* The VM is switched, or uses the override up.
LEMMA PatchEnvironmentKeeps ==
    ASSUME PatchInv, PatchEnvironment
    PROVE  PatchInv'
<1>1. changes' = changes + 1 /\ changes \in Nat /\ UNCHANGED patch
    BY DEF PatchEnvironment, Changed, PatchInv
<1>2. ServiceOK'
  <2>1. CASE VmChanges
      BY <2>1 DEF PatchInv, ServiceOK, VmChanges, Next, Boot, End, Notice
  <2>2. CASE ConsumeBootOnce
      BY <2>2 DEF PatchInv, ServiceOK, ConsumeBootOnce, vmVars, NoOverride, Enabled, Targets
  <2>3. CASE Pauses
      BY <2>3 DEF PatchInv, ServiceOK, Pauses, serviceVars, vmVars
  <2> QED
      BY <2>1, <2>2, <2>3 DEF PatchEnvironment
<1>3. ASSUME NEW c \in Patchers
      PROVE  RequestOK(patch[c])'
  <2>1. PICK r : r = patch[c]
      OBVIOUS
  <2>2. RequestOK(r)
      BY <2>1 DEF PatchInv, RequestOK
  <2>3. RequestOK(r)'
      BY <1>1, <2>2, Overtaken
  <2> QED
      BY <1>1, <2>1, <2>3
<1> QED
    BY <1>1, <1>2, <1>3 DEF PatchInv, RequestOK

\* Nothing of the system changes.
LEMMA PatchRests ==
    ASSUME PatchInv, UNCHANGED <<serviceVars, patchVars>>
    PROVE  PatchInv'
    BY DEF serviceVars, vmVars, patchVars, PatchInv, ServiceOK, PatchPlace, TagOK, AskedOK,
       PowerNow, SystemNow

LEMMA MediaRests ==
    ASSUME MediaInv, UNCHANGED <<vmVars, mediaVars>>
    PROVE  MediaInv'
<1>1. DriveFollowsVm /\ UNCHANGED <<currentMedia, media, path, content, tainted, clerk>>
    BY DEF DriveFollowsVm, vmVars, mediaVars
<1> QED
    BY <1>1, DriveKeeps

LEMMA PatchInitOK ==
    ASSUME ServiceInit, PatchInit
    PROVE  PatchInv
<1>1. ServiceOK
    BY DEF ServiceInit, Init, ServiceOK, NoOverride, Enabled, Targets
<1>2. RequestOK(NoPatch)
    BY DEF PatchInit, RequestOK, PatchPlace, TagOK, AskedOK, NoPatch, Unwritten, Written,
       Matching, Reading
<1> QED
    BY <1>1, <1>2 DEF PatchInit, PatchInv, RequestOK

LEMMA RedfishInitOK ==
    ASSUME RedfishInit
    PROVE  RedfishInv
    BY PatchInitOK, MediaInitOK DEF RedfishInit, RedfishInv

LEMMA RedfishNextKeeps ==
    ASSUME RedfishInv, [RedfishNext]_redfishVars
    PROVE  RedfishInv'
<1>1. ASSUME NEW c \in Patchers, PatchHandler(c), UNCHANGED mediaVars
      PROVE  RedfishInv'
    BY <1>1, PatchHandlerKeeps, PatchHandlerKeepsVm, MediaRests DEF RedfishInv
<1>2. ASSUME NEW c \in MediaClients, MediaHandler(c), UNCHANGED patchVars
      PROVE  RedfishInv'
    BY <1>2, MediaHandlerKeeps, MediaHandlerKeepsService, PatchRests DEF RedfishInv
<1>3. CASE /\ PatchEnvironment /\ DriveFollowsVm
           /\ UNCHANGED <<currentMedia, media, path, content, tainted, clerk>>
    BY <1>3, PatchEnvironmentKeeps, DriveKeeps DEF RedfishInv
<1>4. CASE UNCHANGED redfishVars
    BY <1>4, PatchRests, MediaRests DEF RedfishInv, redfishVars, serviceVars
<1> QED
    BY <1>1, <1>2, <1>3, <1>4 DEF RedfishNext

LEMMA RedfishInvariant == RedfishSpec => []RedfishInv
<1>1. RedfishInit => RedfishInv
    BY RedfishInitOK
<1>2. RedfishInv /\ [RedfishNext]_redfishVars => RedfishInv'
    BY RedfishNextKeeps
<1> QED
    BY <1>1, <1>2, PTL DEF RedfishSpec

\* The override is always one that Start accepts, and what a request has been answered
\* is a status of handleGetSystem or handlePatchSystem.
THEOREM PatchTyped == RedfishSpec => []PatchTypeOK
<1>1. RedfishInit => PatchTypeOK
  <2>1. SUFFICES ASSUME RedfishInit
                 PROVE  PatchTypeOK
      OBVIOUS
  <2>2. Bootable(override)
      BY <2>1, RedfishInitOK DEF RedfishInv, PatchInv, ServiceOK, Bootable
  <2>3. \A c \in Patchers : patch[c] = NoPatch
      BY <2>1 DEF RedfishInit, PatchInit
  <2> QED
      BY <2>2, <2>3 DEF PatchTypeOK, NoPatch
<1>2. RedfishInv /\ RedfishInv' /\ PatchTypeOK /\ [RedfishNext]_redfishVars => PatchTypeOK'
  <2>1. SUFFICES ASSUME RedfishInv, RedfishInv', PatchTypeOK, [RedfishNext]_redfishVars
                 PROVE  PatchTypeOK'
      OBVIOUS
  <2>2. Bootable(override)'
      BY <2>1 DEF RedfishInv, PatchInv, ServiceOK, Bootable
  <2>3. ASSUME NEW c \in Patchers
        PROVE  patch'[c].power \in Reported /\ patch'[c].code \in {0, 200, 400, 412, 500}
    <3>1. patch[c].power \in Reported /\ patch[c].code \in {0, 200, 400, 412, 500}
        BY <2>1 DEF PatchTypeOK, Reported
    <3>2. CASE UNCHANGED patch
        BY <3>1, <3>2
    <3>3. ASSUME NEW d \in Patchers, PatchHandler(d)
          PROVE  patch'[c].power \in Reported /\ patch'[c].code \in {0, 200, 400, 412, 500}
        BY <2>1, <3>1, <3>3, HandlerIsLocal, HandlerAnswers DEF RedfishInv, Answered
    <3> QED
        BY <2>1, <3>2, <3>3 DEF RedfishNext, PatchEnvironment, redfishVars, patchVars
  <2> QED
      BY <2>2, <2>3 DEF PatchTypeOK, Reported
<1> QED
    BY <1>1, <1>2, RedfishInvariant, PTL DEF RedfishSpec

\* A client whose ETag is of a system that nobody has changed since it was read is not
\* refused with 412, whatever is read and changed at the same time (generateETag).
THEOREM FreshTags == RedfishSpec => []FreshTagsAccepted
<1>1. RedfishInv => FreshTagsAccepted
    BY DEF RedfishInv, PatchInv, TagOK, FreshTagsAccepted
<1> QED
    BY <1>1, RedfishInvariant, PTL

\* A PATCH during which nobody else has changed anything has set what it names, kept
\* the rest, and says so in its answer (handlePatchSystem).
THEOREM PatchAsked == RedfishSpec => []PatchDoesAsAsked
<1>1. RedfishInv => PatchDoesAsAsked
  <2>1. SUFFICES ASSUME PatchInv, NEW c \in Patchers, PatchAt(c, "respond"),
                        patch[c].body # <<>>, changes = Due(patch[c])
                 PROVE  [over |-> patch[c].over, order |-> patch[c].order]
                            = Patched(patch[c].base, patch[c].body)
      BY DEF RedfishInv, PatchDoesAsAsked, Due
  <2>2. PICK r : r = patch[c]
      OBVIOUS
  <2>3. r.pc = "respond" /\ TagOK(r) /\ AskedOK(r) /\ changes \in Nat
      BY <2>1, <2>2 DEF PatchInv
  <2>4. r.read = changes /\ SystemNow = Patched(r.base, r.body)
      BY <2>1, <2>2, <2>3 DEF TagOK, AskedOK, Written, Reading
  <2>5. r.over = override /\ r.order = bootOrder
      BY <2>3, <2>4 DEF TagOK, Reading
  <2> QED
      BY <2>2, <2>4, <2>5 DEF SystemNow
<1> QED
    BY <1>1, RedfishInvariant, PTL

\* A PATCH that is refused (400, 412) has set nothing, not even a part of what it asked
\* for, before the reason was found (handlePatchSystem).
THEOREM Refused == RedfishSpec => RefusedChangesNothing
<1>1. RedfishInv /\ [RedfishNext]_redfishVars =>
          [\A c \in Patchers :
              patch'[c].code \in {400, 412} /\ patch[c].pc # "idle" =>
                  ~patch[c].wrote /\ UNCHANGED <<override, bootOrder, led>>]_<<serviceVars, patchVars>>
  <2>1. SUFFICES ASSUME RedfishInv, [RedfishNext]_redfishVars, NEW c \in Patchers,
                        ~UNCHANGED <<serviceVars, patchVars>>,
                        patch'[c].code \in {400, 412}, patch[c].pc # "idle"
                 PROVE  ~patch[c].wrote /\ UNCHANGED <<override, bootOrder, led>>
      OBVIOUS
  <2>2. patch[c].code = 0
      BY <2>1 DEF RedfishInv, PatchInv, PatchPlace
  <2>3. ~UNCHANGED patch
      BY <2>1, <2>2
  <2>4. PICK d \in Patchers : PatchHandler(d)
      BY <2>1, <2>3 DEF RedfishNext, PatchEnvironment, redfishVars, patchVars
  <2>5. d = c
      BY <2>1, <2>2, <2>4, HandlerIsLocal DEF RedfishInv
  <2> QED
      BY <2>1, <2>4, <2>5, HandlerAnswers DEF RedfishInv, Answered
<1> QED
    BY <1>1, RedfishInvariant, PTL DEF RedfishSpec, RefusedChangesNothing

\* The types; a request is alone only while it is the only one.
THEOREM MediaTyped == RedfishSpec => []MediaTypeOK
<1>1. RedfishInv => MediaTypeOK
    BY DEF RedfishInv, MediaInv
<1> QED
    BY <1>1, RedfishInvariant, PTL

\* When every request for the CD is over and none has failed in part or met another one
\* since the last that set things right, what Redfish shows as inserted is what the
\* next cold start attaches, whole, and what the drive of the running VM holds.
THEOREM MediaAgrees == RedfishSpec => []MediaAgree
<1>1. RedfishInv => MediaAgree
    BY DEF RedfishInv, MediaInv
<1> QED
    BY <1>1, RedfishInvariant, PTL

\* In the middle of a request too, a cold start never names a downloaded file that has
\* been removed: EjectMedia clears the media before it removes the file.
THEOREM ColdStart == RedfishSpec => []ColdStartFindsImage
<1>1. RedfishInv => ColdStartFindsImage
    BY DEF RedfishInv, MediaInv
<1> QED
    BY <1>1, RedfishInvariant, PTL
=============================================================================
