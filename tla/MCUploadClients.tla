--------------------------- MODULE MCUploadClients ---------------------------
\* UploadClients on small sets; the bounds are in the .cfg file.
EXTENDS UploadClients
=============================================================================
