---------------------------- MODULE VirtualMedia ----------------------------
(***************************************************************************)
(* InsertMedia and EjectMedia of the virtual CD (handleInsertMedia and     *)
(* handleEjectMedia of internal/redfish, InsertMedia and EjectMedia of     *)
(* internal/machine): four places that say what is in the drive, set one   *)
(* after the other while the VM may start and stop.                        *)
(***************************************************************************)
EXTENDS MachineService, FiniteSets

CONSTANTS MediaClients,   \* connections that insert and eject
          Urls,           \* http(s) images
          LocalImages,    \* images that are local paths
          MaxFiles        \* bound on the downloaded files

VARIABLES currentMedia,   \* s.currentMedia, what Redfish shows as inserted
          media,          \* the process manager's media, attached at a cold start
          path,           \* the file that vmediaLocalPath names, 0 for none
          content,        \* file -> the images that are (partly) in it
          drive,          \* what the running VM's CD drive holds
          tainted,        \* a request has failed in part, or met another one
          clerk           \* each connection's request and how far it is

mediaVars == <<currentMedia, media, path, content, drive, tainted, clerk>>

Files == 1..MaxFiles
NoImage == "none"

ASSUME MediaAssumption ==
    /\ MaxFiles \in Nat
    /\ Urls \cap LocalImages = {} /\ NoImage \notin Urls \cup LocalImages

Empty == [kind |-> "empty"]
File(f) == [kind |-> "file", file |-> f]
Local(i) == [kind |-> "local", image |-> i]
Path == [kind |-> "path"]   \* vmediaLocalPath, whichever file that is when it is opened

\* alone: no other request has run at the same time; file: what is downloaded into.
NoClerk == [pc |-> "idle", image |-> NoImage, file |-> 0, alone |-> FALSE]

MediaInit ==
    /\ currentMedia = NoImage
    /\ media = Empty
    /\ path = 0
    /\ content = [f \in Files |-> {}]
    /\ drive = Empty
    /\ tainted = FALSE
    /\ clerk = [c \in MediaClients |-> NoClerk]

ClerkAt(c, p) == clerk[c].pc = p
ClerkGoto(c, p) == clerk' = [clerk EXCEPT ![c].pc = p]
Busy == {c \in MediaClients : clerk[c].pc # "idle"}

\* A request begins; it and every other one under way have company.
BeginMedia(c, p, image) ==
    /\ ClerkAt(c, "idle")
    /\ clerk' = [d \in MediaClients |->
                   IF d = c
                   THEN [NoClerk EXCEPT !.pc = p, !.image = image, !.alone = (Busy = {})]
                   ELSE [clerk[d] EXCEPT !.alone = FALSE]]
    /\ tainted' = (tainted \/ Busy # {})
    /\ UNCHANGED <<serviceVars, currentMedia, media, path, content, drive>>

\* One that ran alone and did all of its steps makes up for whatever went wrong before.
EndMedia(c) ==
    /\ clerk' = [clerk EXCEPT ![c] = NoClerk]
    /\ tainted' = (tainted /\ ~clerk[c].alone)

Opened(m) == IF m = Path THEN File(path) ELSE m
Missing(m) == m = Path /\ path = 0

\* applyMedia: a VM starts with what is persisted in its drive.  QEMU does not come
\* up with a file that is not there.
DriveFollowsVm ==
    drive' = IF vm' = vm THEN drive
             ELSE IF vm' = 0 \/ Missing(media) THEN Empty ELSE Opened(media)

-----------------------------------------------------------------------------
(* InsertMedia                                                             *)

InsertMedia(c) == \E u \in Urls : BeginMedia(c, "get", u)
InsertLocal(c) == \E i \in LocalImages : BeginMedia(c, "set_media", i)

\* Errors are only logged: what is left to do is to record the image as inserted.
MediaFails(c) ==
    /\ clerk' = [clerk EXCEPT ![c].pc = "record", ![c].alone = FALSE]
    /\ tainted' = TRUE

\* fetchMedia: no answer, or not 200.
FetchRefused(c) ==
    /\ ClerkAt(c, "get")
    /\ MediaFails(c)
    /\ UNCHANGED <<serviceVars, currentMedia, media, path, content, drive>>

\* os.Create truncates the file there is, under whoever reads it, or makes a new one.
CreateFile(c) ==
    /\ ClerkAt(c, "get")
    /\ LET unused == {f \in Files : f # path /\ content[f] = {} /\ drive # File(f)
                                    /\ \A d \in MediaClients : clerk[d].file # f}
           f == IF path # 0 THEN path ELSE CHOOSE g \in unused : \A h \in unused : g <= h
       IN  /\ path # 0 \/ unused # {}
           /\ path' = f
           /\ content' = [content EXCEPT ![f] = {}]
           /\ clerk' = [clerk EXCEPT ![c].pc = "copy", ![c].file = f]
    /\ UNCHANGED <<serviceVars, currentMedia, media, drive, tainted>>

CopyFails(c) ==
    /\ ClerkAt(c, "copy")
    /\ content' = [content EXCEPT ![clerk[c].file] = @ \cup {"partial"}]
    /\ MediaFails(c)
    /\ UNCHANGED <<serviceVars, currentMedia, media, path, drive>>

CopyEnds(c) ==
    /\ ClerkAt(c, "copy")
    /\ content' = [content EXCEPT ![clerk[c].file] = @ \cup {clerk[c].image}]
    /\ ClerkGoto(c, "set_media")
    /\ UNCHANGED <<serviceVars, currentMedia, media, path, drive, tainted>>

\* What fetchMedia returns.
MediaPath(c) == IF clerk[c].image \in Urls THEN Path ELSE Local(clerk[c].image)

\* Variant: what is put into a running VM's drive is not persisted.
SetMediaCold(c) ==
    /\ ClerkAt(c, "set_media")
    /\ media' = IF vm = 0 THEN MediaPath(c) ELSE media
    /\ ClerkGoto(c, "change_medium")
    /\ UNCHANGED <<serviceVars, currentMedia, path, content, drive, tainted>>

SetMedia(c) ==
    /\ ClerkAt(c, "set_media")
    /\ media' = MediaPath(c)
    /\ ClerkGoto(c, "change_medium")
    /\ UNCHANGED <<serviceVars, currentMedia, path, content, drive, tainted>>

\* QEMU opens the file and puts it into the drive.  Without a VM the command fails,
\* as it should; it may fail over a VM too (the file is gone, or QMP not connected).
BlockdevChangeMedium(c) ==
    /\ ClerkAt(c, "change_medium")
    /\ \/ /\ vm # 0 /\ ~Missing(MediaPath(c))
          /\ drive' = Opened(MediaPath(c))
          /\ ClerkGoto(c, "record")
          /\ UNCHANGED tainted
       \/ /\ vm # 0
          /\ MediaFails(c)
          /\ UNCHANGED drive
       \/ /\ vm = 0
          /\ ClerkGoto(c, "record")
          /\ UNCHANGED <<drive, tainted>>
    /\ UNCHANGED <<serviceVars, currentMedia, media, path, content>>

-----------------------------------------------------------------------------
(* EjectMedia                                                              *)

\* Variant: only the running VM's drive is emptied.
EjectMediaLive(c) == BeginMedia(c, "remove_file", NoImage)

EjectMedia(c) == BeginMedia(c, "clear_media", NoImage)

ClearMedia(c) ==
    /\ ClerkAt(c, "clear_media")
    /\ media' = Empty
    /\ ClerkGoto(c, "remove_file")
    /\ UNCHANGED <<serviceVars, currentMedia, path, content, drive, tainted>>

\* A drive that holds the file keeps it.
RemoveFile(c) ==
    /\ ClerkAt(c, "remove_file")
    /\ path' = 0
    /\ ClerkGoto(c, "remove_medium")
    /\ UNCHANGED <<serviceVars, currentMedia, media, content, drive, tainted>>

BlockdevRemoveMedium(c) ==
    /\ ClerkAt(c, "remove_medium")
    /\ \/ /\ vm # 0
          /\ drive' = Empty
          /\ ClerkGoto(c, "record")
          /\ UNCHANGED tainted
       \/ /\ vm # 0
          /\ MediaFails(c)
          /\ UNCHANGED drive
       \/ /\ vm = 0
          /\ ClerkGoto(c, "record")
          /\ UNCHANGED <<drive, tainted>>
    /\ UNCHANGED <<serviceVars, currentMedia, media, path, content>>

\* setCurrentMedia, of either request, whatever became of it.
SetCurrentMedia(c) ==
    /\ ClerkAt(c, "record")
    /\ currentMedia' = clerk[c].image
    /\ EndMedia(c)
    /\ content' = [f \in Files |-> IF f = path \/ drive = File(f) THEN content[f] ELSE {}]
    /\ UNCHANGED <<serviceVars, media, path, drive>>

MediaHandler(c) ==
    \/ InsertMedia(c) \/ InsertLocal(c) \/ FetchRefused(c) \/ CreateFile(c)
    \/ CopyFails(c) \/ CopyEnds(c) \/ SetMedia(c) \/ BlockdevChangeMedium(c)
    \/ EjectMedia(c) \/ ClearMedia(c) \/ RemoveFile(c) \/ BlockdevRemoveMedium(c)
    \/ SetCurrentMedia(c)
-----------------------------------------------------------------------------
(***************************************************************************)
(* Properties                                                              *)
(***************************************************************************)

ClerkPlaces == {"idle", "get", "copy", "set_media", "change_medium", "clear_media",
                "remove_file", "remove_medium", "record"}

Clerk == [pc: ClerkPlaces, image: Urls \cup LocalImages \cup {NoImage},
          file: Files \cup {0}, alone: BOOLEAN]

Holdings == {Empty, Path} \cup {Local(i) : i \in LocalImages}

\* The types; a request is alone only while it is the only one.
MediaTypeOK ==
    /\ currentMedia \in Urls \cup LocalImages \cup {NoImage}
    /\ media \in Holdings
    /\ path \in Files \cup {0}
    /\ content \in [Files -> SUBSET (Urls \cup {"partial"})]
    /\ drive \in (Holdings \ {Path}) \cup {File(f) : f \in Files}
    /\ tainted \in BOOLEAN
    /\ clerk \in [MediaClients -> Clerk]
    /\ \A c \in MediaClients : clerk[c].alone => Busy = {c}

\* The persisted media that stand for what Redfish shows as inserted.
Persisted(image) == IF image = NoImage THEN Empty ELSE IF image \in Urls THEN Path ELSE Local(image)

\* What Redfish shows as inserted is what the next cold start attaches, whole and
\* from this image's URL, and what the drive of the running VM holds, wherever in the
\* last request the VM was switched on or off; a request that ran alone and did
\* its steps makes this true again, whatever went wrong before it.
MediaAgree ==
    Busy = {} /\ ~tainted =>
        /\ media = Persisted(currentMedia)
        /\ media = Path => path # 0 /\ content[path] = {currentMedia}
        /\ vm # 0 => drive = Opened(media)

\* A cold start never names a downloaded file that has been removed, in the
\* middle of a request either: EjectMedia clears the media before it
\* removes the file.
ColdStartFindsImage == ~tainted => ~Missing(media)
-----------------------------------------------------------------------------
(***************************************************************************)
(* The inductive invariant: what a request that runs alone has set so far, *)
(* and what there is as long as nothing has gone wrong.                    *)
(***************************************************************************)

\* The image is persisted, and its file is whole.
Whole(image) ==
    /\ media = Persisted(image)
    /\ image \in Urls => path # 0 /\ content[path] = {image}

InDrive == vm # 0 => drive = Opened(media)

\* Which images come to which places.
ClerkPlace(r) ==
    /\ r.pc \in {"get", "copy"} => r.image \in Urls
    /\ r.pc \in {"set_media", "change_medium"} => r.image # NoImage
    /\ r.pc \in {"clear_media", "remove_file", "remove_medium"} => r.image = NoImage

AloneOK(r) ==
    /\ r.pc = "copy" => r.file \in Files /\ path = r.file /\ content[path] = {}
    /\ r.pc = "set_media" /\ r.image \in Urls => path # 0 /\ content[path] = {r.image}
    /\ r.pc \in {"change_medium", "remove_file", "remove_medium", "record"} => Whole(r.image)
    /\ r.pc = "record" => InDrive

MediaInv ==
    /\ MediaTypeOK
    /\ \A c \in MediaClients :
           /\ ClerkPlace(clerk[c])
           /\ clerk[c].alone => AloneOK(clerk[c])
           /\ ~tainted /\ c \in Busy => clerk[c].alone
    /\ MediaAgree
    /\ ColdStartFindsImage
=============================================================================
