----------------------------- MODULE MCUploads -----------------------------
EXTENDS Uploads
AllHosts == {FileDropzone, ImageInput, AdminImageInput, Composer, ProductImageManager}
=============================================================================
