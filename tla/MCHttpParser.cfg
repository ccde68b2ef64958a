CONSTANTS
  Inputs <- EditedRequests
  hf_list <- HeaderNames
  mime_list <- Extensions
SPECIFICATION DispatchSpec
CHECK_DEADLOCK FALSE
INVARIANTS
  TypeOK
  LineExact
  UrlExact
  HeadersExact
  HeaderSetInOrder
  HandlerExact
  
