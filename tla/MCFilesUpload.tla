----------------------------- MODULE MCFilesUpload -----------------------------
(***************************************************************************)
(* Uploads that reach every branch: a form field before and after the      *)
(* file, two files, a forbidden first file and a forbidden second one, no  *)
(* file, a cap that cuts within a file, and the malformed headers.         *)
(***************************************************************************)
EXTENDS FilesUpload

MCParts ==
    { <<"file", "chunk">>,
      <<"field", "chunk", "file", "chunk">>,
      <<"file", "chunk", "chunk", "chunk", "chunk">>,
      <<"file", "chunk", "file", "chunk">>,
      <<"file", "chunk", "bad", "chunk">>,
      <<"field", "chunk", "bad", "chunk">>,
      <<"field", "chunk">>,
      <<"field", "chunk", "chunk", "chunk", "chunk">>,
      <<"file", "chunk", "field", "chunk">> }

MCRequests ==
    [form : {"multipart"}, declared : BOOLEAN, parts : MCParts]
        \cup [form : {"no_boundary", "other"}, declared : {TRUE}, parts : {<<"file", "chunk">>}]
================================================================================
