--------------------------- MODULE ModelProviders ---------------------------
(***************************************************************************)
(* ModelSize and LoadModel of the model providers (modelproviders/): the   *)
(* listing loop of the S3 and of the Azure provider, and the copy of the   *)
(* disk provider.  The cache manager makes one call at a time.             *)
(*                                                                         *)
(* The store is external.  A listing comes in pages of at most PageSize    *)
(* objects.  S3 fills its pages; a page of Azure may be short or empty and *)
(* have a marker all the same, even after the last object.  An object      *)
(* whose name ends in "/" is a folder.  The disk provider sees a directory *)
(* tree instead, in the same way.                                          *)
(***************************************************************************)
EXTENDS Integers, Sequences, FiniteSets, FiniteSetsExt

CONSTANTS
  Providers,      \* the values of modelProvider.type to consider
  Catalogue,      \* what the store may hold of each model: identifier -> listing
  PageSize,       \* objects per page of a listing, at most
  MaxEmptyPages,  \* empty pages with a marker, at most, in a listing of Azure
  DirSize,        \* what Stat says is the size of a directory
  IntLimit        \* 2^63: totalSize is an int64

ASSUME ProvidersAssumption ==
  /\ Providers \subseteq {"s3Provider", "azBlobProvider", "diskProvider"}
  /\ PageSize \in Nat \ {0} /\ MaxEmptyPages \in Nat
  /\ IntLimit \in Nat \ {0} /\ DirSize \in 0..IntLimit - 1

VARIABLES
  provider,  \* the configured provider
  stored,    \* the listing of each model, in the order of the store
  job        \* the provider call in progress

providerVars == <<provider, stored, job>>

\* What is left of a sum in an int64.
Int64(n) == ((n + IntLimit) % (2 * IntLimit)) - IntLimit

NoJob == [op |-> "none", step |-> "ended", token |-> 0, next |-> 1, upto |-> 0, marker |-> "none",
          empty |-> 0, total |-> 0, files |-> {}]

\* op: "size" is ModelSize, "load" is LoadModel.  token: the objects the next
\* page comes after.  next..upto: what is left of the page.  marker: whether there
\* is a page after it.  empty: the empty pages so far that were not the last.
\* files: what was written.
ProviderTypeOK ==
  /\ provider \in Providers
  /\ stored \in Catalogue
  /\ job.op \in {"none", "size", "load"}
  /\ job.step \in {"list", "apply", "ended", "failed"}
  /\ job.token \in Nat /\ job.upto \in Nat /\ job.next \in 1..job.upto + 1
  /\ job.marker \in {"none", "set"} /\ job.empty \in 0..MaxEmptyPages
  /\ job.total \in -IntLimit..IntLimit - 1
  /\ job.files \subseteq 1..job.upto

\* CreateModelProvider.
ProviderInit == provider \in Providers /\ stored \in Catalogue /\ job = NoJob

Keep == UNCHANGED <<provider, stored>>

-----------------------------------------------------------------------------
Begin(op) ==
  /\ job.op = "none"
  /\ job' = [NoJob EXCEPT !.op = op, !.step = "list"]
  /\ Keep

\* The call is over, with job.step the result.
Return == /\ job.op # "none" /\ job' = NoJob /\ Keep

Mut_CountsFailed ==
  /\ job.step \in {"list", "apply"}
  /\ job' = IF job.op = "load" /\ job.step = "apply" /\ job.next = job.upto
            THEN [job EXCEPT !.next = @ + 1, !.total = Int64(@ + 1)]
            ELSE [job EXCEPT !.step = "failed"]
  /\ Keep

\* Any call of the store, and of the file system, may fail.
Fails ==
  /\ job.step \in {"list", "apply"}
  /\ job' = [job EXCEPT !.step = "failed"]
  /\ Keep

\* The objects after token and up to upto may be the next page; marker is what
\* IsTruncated, or Marker.NotDone(), says.
IsPage(m, upto, marker) ==
  IF provider = "s3Provider"
  THEN /\ upto = Min({job.token + PageSize, Len(stored[m])})
       /\ marker = "set" <=> upto < Len(stored[m])
  ELSE /\ marker = "none" => upto = Len(stored[m])
       /\ upto = job.token /\ marker = "set" => job.empty < MaxEmptyPages

Mut_SkipsFirst(m) ==
  /\ job.step = "list" /\ provider # "diskProvider"
  /\ \E upto \in job.token..Min({job.token + PageSize, Len(stored[m])}), marker \in {"none", "set"} :
       /\ IsPage(m, upto, marker)
       /\ job' = [job EXCEPT !.step = "apply", !.next = job.token + 2, !.upto = upto, !.marker = marker,
                             !.empty = IF upto = job.token /\ marker = "set" THEN @ + 1 ELSE @]
  /\ Keep

\* ListObjectsV2, ListBlobsFlatSegment: the page after token.
ListPage(m) ==
  /\ job.step = "list" /\ provider # "diskProvider"
  /\ \E upto \in job.token..Min({job.token + PageSize, Len(stored[m])}), marker \in {"none", "set"} :
       /\ IsPage(m, upto, marker)
       /\ job' = [job EXCEPT !.step = "apply", !.next = job.token + 1, !.upto = upto, !.marker = marker,
                             !.empty = IF upto = job.token /\ marker = "set" THEN @ + 1 ELSE @]
  /\ Keep

\* findSrcPathForModel, and the whole tree below it.  There is nothing to copy
\* for ModelSize.
FindSrcPath(m) ==
  /\ job.step = "list" /\ provider = "diskProvider"
  /\ job' = IF stored[m] = <<>>
            THEN [job EXCEPT !.step = "failed"]
            ELSE [job EXCEPT !.step = "apply", !.upto = IF job.op = "load" THEN Len(stored[m]) ELSE 0]
  /\ Keep

Mut_CountsFolders(m) ==
  /\ job.step = "apply" /\ job.next <= job.upto
  /\ LET object == stored[m][job.next]
     IN  job' = [job EXCEPT !.next = @ + 1,
                            !.total = Int64(@ + object.size),
                            !.files = IF object.folder \/ job.op = "size" THEN @ ELSE @ \cup {job.next}]
  /\ Keep

\* applyFun: a folder is skipped, a file counted and, by LoadModel, written.
ApplyObject(m) ==
  /\ job.step = "apply" /\ job.next <= job.upto
  /\ LET object == stored[m][job.next]
     IN  job' = [job EXCEPT !.next = @ + 1,
                            !.total = IF object.folder THEN @ ELSE Int64(@ + object.size),
                            !.files = IF object.folder \/ job.op = "size" THEN @ ELSE @ \cup {job.next}]
  /\ Keep

Mut_MarkerStays == job.token

\* The response of S3 has the token of the request in ContinuationToken (the next
\* one is in NextContinuationToken): the first page is asked for again.
NextToken == IF provider = "s3Provider" THEN job.token ELSE job.upto

\* The end of a page.  When no page had a blob the Azure provider returns an
\* error.
PageDone(m) ==
  /\ job.step = "apply" /\ job.next > job.upto /\ provider # "diskProvider"
  /\ job' = IF job.marker = "set"
            THEN [job EXCEPT !.step = "list", !.token = NextToken]
            ELSE [job EXCEPT !.step = IF provider = "azBlobProvider" /\ stored[m] = <<>>
                                      THEN "failed" ELSE "ended"]
  /\ Keep

\* The disk provider reports what Stat says of the source directory.
StatSrcPath ==
  /\ job.step = "apply" /\ job.next > job.upto /\ provider = "diskProvider"
  /\ job' = [job EXCEPT !.step = "ended", !.total = DirSize]
  /\ Keep

FilesOf(listing) == {i \in DOMAIN listing : ~listing[i].folder}

SizeOfFiles(listing) == LET size(i) == listing[i].size IN MapThenSumSet(size, FilesOf(listing))

Files(m) == FilesOf(stored[m])
=============================================================================
