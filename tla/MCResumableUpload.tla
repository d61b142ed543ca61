-------------------------- MODULE MCResumableUpload --------------------------
(* ResumableUpload with retries for the multipart driver only, which keeps the *)
(* states of the other three few. DeleteMany, FilesClient and Uploads come     *)
(* with it for TLC to evaluate their assumptions.                              *)
EXTENDS ResumableUpload, DeleteMany, FilesClient, Uploads

RetriesOfS3 == driver = S3 \/ \A w \in Workers : tries[w] = 0
=============================================================================
