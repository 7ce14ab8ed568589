--------------------------------- MODULE Files ---------------------------------
(***************************************************************************)
(* Containers in JSON files: JValue.writeToFile, readFromFile and          *)
(* readFromDirectory.                                                      *)
(*                                                                         *)
(*   api_3/tes_object.h                 the functions                      *)
(*   collections/json_serialization.h   from a file to containers          *)
(*   api_3/tes_jcontainers.h            JContainers' functions for files   *)
(*                                                                         *)
(* files is what a disk holds: documents, or texts that are none, at some  *)
(* paths.  A path has a directory, a file name, which is a name of a map's *)
(* key, and the extension the file name ends with.  A directory is there   *)
(* when a file is in it; directories in directories are not modelled.      *)
(***************************************************************************)
EXTENDS Documents

FilePath(dir, name, extension) == [dir |-> dir, name |-> name, extension |-> extension]
DirectoryPath(dir) == [dir |-> dir]

\* A text jansson cannot parse; a document has a root at least.
NoDocument == <<>>

\* toJsonString: the document's text.
ToJsonString(h, o) == Write(h, o)

\* writeToFile: missing directories are created, a file that is there is replaced.
WriteToFile(files, h, o, path) == (path :> ToJsonString(h, o)) @@ files

\* object_from_file: no object comes of a file that is missing or no document.
ReadFromFile(files, h, path) ==
  IF path \notin DOMAIN files \/ files[path] = NoDocument THEN h ELSE Read(h, files[path])

\* The files readFromDirectory tries: those with the extension, all of them for "".
FilesIn(files, dir, extension) ==
  { f \in DOMAIN files : f.dir = dir /\ (extension = "" \/ f.extension = extension) }

\* readFromDirectory: a new map of the files' objects, each at its file's name.  The map
\* is the first new object.  The order of a directory does not matter to the map.
ReadFromDirectory(files, h, dir, extension) ==
  LET map == Len(h) + 1
      add(g, f) ==
        LET r == ReadFromFile(files, g, f)
        IN  IF r = g THEN g ELSE USet(r, map, Name(f.name), ObjItem(Len(g) + 1))
  IN  FoldLeft(add, Append(h, New("map")), SetToSeq(FilesIn(files, dir, extension)))

-----------------------------------------------------------------------------
(* JContainers *)

\* The file at a path, or the files in the directory that is there.
FilesAt(files, path) == { f \in DOMAIN files : path \in {f, DirectoryPath(f.dir)} }

FileExistsAtPath(files, path) == FilesAt(files, path) # {}

\* Any extension that is given lists all files, "" those that have none.
ContentsOfDirectoryAtPath(files, dir, extension) ==
  { f \in FilesAt(files, DirectoryPath(dir)) : extension # "" \/ f.extension = extension }

\* removeFileAtPath: a directory goes with all that is in it.
RemoveFileAtPath(files, path) == [f \in DOMAIN files \ FilesAt(files, path) |-> files[f]]
=============================================================================
