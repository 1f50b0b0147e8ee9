------------------------------ MODULE IppCups ------------------------------
(***************************************************************************)
(* CUPS operations (operation/cups.rs): CUPS-Get-Printers and            *)
(* CUPS-Delete-Printer, and the request each hands back from              *)
(* into_ipp_request.  The request itself is made by                       *)
(* IppRequestResponse::new and new_internal in request.rs, which is not   *)
(* under src/: it is modelled from the spec (4.7 and 8, the header        *)
(* attributes an operation group carries, and 6, a URI is at most 1023     *)
(* bytes): one operation group holding attributes-charset,                *)
(* attributes-natural-language and, when a URI is given, printer-uri.     *)
(* An Option is a set of at most one element.  The operation code goes    *)
(* to the message header (IppCodec's GetPrinters and DeletePrinter).       *)
(***************************************************************************)
EXTENDS IppAttributes

CONSTANTS
    DefaultCharset,   \* the attributes-charset text of a new request
    DefaultLanguage   \* the attributes-natural-language text of a new request

\* Operation::CupsGetPrinters and Operation::CupsDeletePrinter (model.rs),
\* the CUPS extension codes 0x4002 and 0x4004.
Operation == [CupsGetPrinters |-> 16386, CupsDeletePrinter |-> 16388]

\* IppString is BoundedString<1023>.
IppStringMax == 1023

\* Mutation of UriTryInto: the URI's text is kept without the bound check.
UriTryIntoUnbounded(u, max) == Ok(u)

\* <BoundedString<MAX> as TryFrom<Uri>>::try_from: the URI's text through new.
UriTryInto(u, max) == IF BoundedNew(u, max) THEN Ok(u) ELSE Fail("InvalidStringLength")

\* The printer-uri attribute of a request for the URIs in uri.
UriAttrs(uri) == [n \in {PrinterUri : s \in uri} |->
                    Attr(PrinterUri, [k |-> "Uri", s |-> CHOOSE s \in uri : TRUE])]

\* IppRequestResponse::new_internal: an operation group led by the header
\* attributes, printer-uri included when given.
NewInternal(uri) ==
    << [tag |-> Delim.OperationAttributes,
        attrs |-> (AttributesCharset :>
                      Attr(AttributesCharset, [k |-> "Charset", s |-> DefaultCharset]))
                  @@ (AttributesNaturalLanguage :>
                      Attr(AttributesNaturalLanguage, [k |-> "NaturalLanguage", s |-> DefaultLanguage]))
                  @@ UriAttrs(uri)] >>

\* IppRequestResponse::new: the Option<Uri> made an IppString, then
\* new_internal; the conversion's error is returned.
RequestNew(uri) ==
    IF \A u \in uri : UriTryInto(u, IppStringMax).ok
    THEN Ok(NewInternal(uri))
    ELSE Fail("InvalidStringLength")

\* CupsGetPrinters::into_ipp_request: new with no URI, and expect() panics
\* on an error.
CupsGetPrintersRequest ==
    IF RequestNew({}).ok THEN RequestNew({}) ELSE Fail("Panic")

\* CupsDeletePrinter::new: the URI made an IppString, or the error.
CupsDeletePrinterNew(u) == UriTryInto(u, IppStringMax)

\* CupsDeletePrinter::into_ipp_request: new_internal with the IppString.
CupsDeletePrinterRequest(s) == NewInternal({s})
=============================================================================
