---------------------------------- MODULE Onie ---------------------------------
(***************************************************************************)
(* GET /onie: the installer or updater image of an ONIE machine, chosen by *)
(* the request's headers from onie.json (read once, at start) and served   *)
(* from a directory whose files come and go.  The handler keeps no state   *)
(* of its own between requests.                                            *)
(***************************************************************************)
EXTENDS Naturals, Sequences

CONSTANTS Machine,     \* ONIE-MACHINE, the vendor of an onie.json entry
          File,        \* image files
          NoName,      \* the empty name; no entry, no request
          MaxEntries,  \* bound: entries of onie.json
          MaxChanges   \* bound: changes of the directory

\* A name left out of an entry is the empty string.
OnieImage == [vendor : Machine, updater : File \cup {NoName},
              installer : File \cup {NoName}]
Operation == {"onie-update", "os-install"}
Downloads == [path : {"/onie"} \cup File, machine : Machine,
              operation : Operation \cup {"other"}]

ASSUME OnieAssumption ==
  /\ MaxEntries \in Nat /\ MaxChanges \in Nat
  /\ NoName \notin File \cup OnieImage \cup Downloads \cup {"listing"}

Configs == UNION {[1..n -> OnieImage] : n \in 0..MaxEntries}

\* The installer directory: it is missing, or there with its files.  The empty
\* name is its own.
Dirs == {{}} \cup {D \cup {NoName} : D \in SUBSET File}

VARIABLES config,      \* the entries of onie.json, in order
          registered,  \* how many of them Register has gone through
          images,      \* the handler's map: vendor to entry
          dir,         \* the names that can be opened in the installer directory
          changes,
          download,    \* the latest request
          reply,
          had          \* history: names that were there since the request came

onieVars == <<config, registered, images, dir, changes, download, reply, had>>

Replies == [status : {0, 200, 400, 404}, file : File \cup {NoName, "listing"}]
Pending == [status |-> 0, file |-> NoName]

\* Type invariant: content is served with 200, and with no other status.
OnieTypeOK ==
  /\ config \in Configs /\ registered \in 0..Len(config)
  /\ images \in [Machine -> OnieImage \cup {NoName}]
  /\ dir \in Dirs /\ had \subseteq File \cup {NoName}
  /\ changes \in 0..MaxChanges
  /\ download \in Downloads \cup {NoName}
  /\ reply \in Replies /\ (reply.status = 200 <=> reply.file # NoName)

OnieInit ==
  /\ config \in Configs /\ registered = 0
  /\ images = [m \in Machine |-> NoName]
  /\ dir \in Dirs /\ had = dir /\ changes = 0
  /\ download = NoName /\ reply = Pending

\* Mutant: an entry does not replace an earlier one of its vendor.
RegisterFirst ==
  LET img == config[registered + 1] IN
  /\ registered < Len(config) /\ registered' = registered + 1
  /\ images' = IF images[img.vendor] = NoName THEN [images EXCEPT ![img.vendor] = img]
               ELSE images
  /\ UNCHANGED <<config, dir, changes, download, reply, had>>

\* One iteration of Register's loop over the entries.
Register ==
  LET img == config[registered + 1] IN
  /\ registered < Len(config) /\ registered' = registered + 1
  /\ images' = [images EXCEPT ![img.vendor] = img]
  /\ UNCHANGED <<config, dir, changes, download, reply, had>>

\* The server listens once Register has returned; a machine sends a request.
Get(r) ==
  /\ registered = Len(config)
  /\ download = NoName \/ reply # Pending
  /\ download' = r /\ reply' = Pending /\ had' = dir
  /\ UNCHANGED <<config, registered, images, dir, changes>>

LookedUp(image, operation) ==
  IF operation = "onie-update" THEN image.updater ELSE image.installer

\* The path of an empty name is /, of which http.FileServer serves a listing.
Body(name) == IF name = NoName THEN "listing" ELSE name

\* Mutant: a file that cannot be opened is answered with 200 all the same.
FileServerOK(file) ==
  reply' = [status |-> 200, file |-> IF file \in dir THEN Body(file) ELSE NoName]

FileServer(file) ==
  reply' = IF file \in dir THEN [status |-> 200, file |-> Body(file)]
           ELSE [status |-> 404, file |-> NoName]

ServeHTTP ==
  /\ download # NoName /\ reply = Pending /\ download.path = "/onie"
  /\ LET image == images[download.machine]
     IN  \/ image = NoName /\ reply' = [status |-> 404, file |-> NoName]
         \/ /\ image # NoName /\ download.operation \in Operation
            /\ FileServer(LookedUp(image, download.operation))
         \/ /\ image # NoName /\ download.operation \notin Operation
            /\ reply' = [status |-> 400, file |-> NoName]
  /\ UNCHANGED <<config, registered, images, dir, changes, download, had>>

\* The mux knows GET /onie and GET /ztp (see Ztp), and answers 404 to the rest.
NotFound ==
  /\ download # NoName /\ reply = Pending /\ download.path # "/onie"
  /\ reply' = [status |-> 404, file |-> NoName]
  /\ UNCHANGED <<config, registered, images, dir, changes, download, had>>

\* Images are put into the directory or removed from it, or it comes or goes.
DirChanges ==
  /\ changes < MaxChanges /\ changes' = changes + 1
  /\ dir' \in Dirs \ {dir}
  /\ had' = had \cup dir'
  /\ UNCHANGED <<config, registered, images, download, reply>>

OnieNext == \/ Register \/ ServeHTTP \/ NotFound \/ DirChanges
            \/ \E r \in Downloads : Get(r)

OnieSpec == OnieInit /\ [][OnieNext]_onieVars

-----------------------------------------------------------------------------
\* What onie.json says of a machine: the last entry of its vendor.
Entry(m) == LET at == {i \in DOMAIN config : config[i].vendor = m}
            IN  config[CHOOSE i \in at : \A j \in at : j <= i]

\* Register and ServeHTTP: a machine gets the image of the operation it names,
\* from the last entry of its vendor, and never another vendor's or the other
\* operation's image, however onie.json orders or repeats its entries; the
\* listing is all a machine gets whose entry leaves the name out.
OwnImageOnly ==
  reply.status = 200 =>
    /\ \E i \in DOMAIN config : config[i].vendor = download.machine
    /\ LET image == LookedUp(Entry(download.machine), download.operation)
       IN  image \in had /\ reply.file = Body(image)

\* docs/usage/provisioning.md:165: "Files are served from the installer
\* directory at HTTP root (`/`)."  A file of the directory is found there.
FilesAtRoot ==
  download # NoName /\ reply # Pending /\ changes = 0 =>
    (download.path \in dir => reply.file = download.path)
=============================================================================
